---------------------------- MODULE Spec2Model ----------------------------
(***************************************************************************)
(* A model of the DEFLATE/zlib codec library (crate `compress`):           *)
(* LSB-first bit I/O, canonical prefix coder, LZSS tokenizer, DEFLATE      *)
(* block encoder and the inflate decoder.                                  *)
(*                                                                         *)
(* Conventions                                                             *)
(*   - a byte is an integer in 0..255, a byte slice a sequence of bytes;   *)
(*   - Option<T> is a sequence: None == <<>>, Some(v) == <<v>>;            *)
(*   - the 64-bit reader accumulator (usize on a 64-bit target) is a       *)
(*     sequence of 64 bits, index 1 being bit 0;                           *)
(*   - Rust indices are 0-based, sequence indices 1-based;                 *)
(*   - a sequence built by a function constructor is followed by \o <<>>,  *)
(*     which leaves its value unchanged and has TLC compute it once.       *)
(***************************************************************************)
EXTENDS Integers, Sequences, FiniteSets, TLC

VARIABLES
    rd,         \* BitStreamReader under test: [acc, left, src, pos]
    rd_ret,     \* what the last reader operation returned: [op, bits, val]
    pf,         \* prefix coder under test: lengths, decoders, stream, outputs
    lz,         \* LzOutputBuffer under test and its last operation
    cx,         \* one run of the codec: input, items, stream, what inflate returned
    fr,         \* framing of a stream: header bytes and the blocks' first bits
    tk,         \* one run of a tokenizer: input, configuration, tokens
    sx,         \* one suffix array construction: source, result
    wr,         \* BitStreamWriter under test, what was pushed, what is read back
    vb,         \* a VarLenInteger and the constructor that made it
    inf         \* one call of inflate on a crafted stream: input, size, result

vars == <<rd, rd_ret, pf, lz, cx, fr, tk, sx, wr, vb, inf>>

-----------------------------------------------------------------------------
(* Option and small helpers *)

None == <<>>

Some(v) == <<v>>

IsSome(o) == Len(o) = 1

Unwrap(o) == o[1]

Min(a, b) == IF a < b THEN a ELSE b

\* F applied to the value of x
With(x, F(_)) == F(x)

Max(a, b) == IF a > b THEN a ELSE b

Pow2(n) == 2 ^ n

\* bit i (0-based) of a non-negative integer
BitOf(x, i) == (x \div Pow2(i)) % 2

\* x >> n and x & (2^n - 1) on non-negative integers
Shr(x, n) == x \div Pow2(n)

LowBits(x, n) == x % Pow2(n)

RECURSIVE BitOr(_, _)
\* a | b on non-negative integers
BitOr(a, b) ==
    IF a = 0 THEN b
    ELSE IF b = 0 THEN a
    ELSE Max(a % 2, b % 2) + 2 * BitOr(a \div 2, b \div 2)

RECURSIVE BitAnd(_, _)
\* a & b on non-negative integers
BitAnd(a, b) ==
    IF a = 0 \/ b = 0 THEN 0
    ELSE (a % 2) * (b % 2) + 2 * BitAnd(a \div 2, b \div 2)

-----------------------------------------------------------------------------
(* num/bits.rs: BitSize *)

\* BitSize::MAX: the widest bit field
BitSizeMax == 24

\* BitSize::new: Some for 1..=24
BitSizeNew(value) == IF value >= 1 /\ value <= BitSizeMax THEN Some(value) ELSE None

\* BitSize::mask
BitSizeMask(bits) == Pow2(bits) - 1

-----------------------------------------------------------------------------
(* num/bits.rs: BitStreamReader *)

\* width of AccRepr (usize) in bits
AccBits == 64

AccZero == [i \in 1..AccBits |-> 0] \o <<>>

\* acc >> n
AccShr(acc, n) == [i \in 1..AccBits |-> IF i + n <= AccBits THEN acc[i + n] ELSE 0] \o <<>>

\* acc | ((byte as AccRepr) << left); bits shifted past the top are lost
AccOrShl(acc, byte, left) ==
    [i \in 1..AccBits |->
        IF i > left /\ i <= left + 8 THEN Max(acc[i], BitOf(byte, i - left - 1))
        ELSE acc[i]] \o <<>>

\* byte as AccRepr
AccOfByte(byte) == [i \in 1..AccBits |-> IF i <= 8 THEN BitOf(byte, i - 1) ELSE 0] \o <<>>

RECURSIVE AccLow(_, _)
\* acc as u32 & bits.mask(), bits <= 24
AccLow(acc, bits) ==
    IF bits = 0 THEN 0 ELSE AccLow(acc, bits - 1) + acc[bits] * Pow2(bits - 1)

\* BitStreamReader::new
ReaderNew(slice) == [acc |-> AccZero, left |-> 0, src |-> slice, pos |-> 0]

\* the unread part of the underlying slice
ReaderSlice(r) == SubSeq(r.src, r.pos + 1, Len(r.src))

\* BitStreamReader::_advance (caller guarantees bits <= left)
Reader_advance(r, bits) == [r EXCEPT !.acc = AccShr(r.acc, bits), !.left = r.left - bits]

RECURSIVE ReaderFill(_, _)
\* the refill loop of read_bits: pull bytes while bits > left
ReaderFill(r, bits) ==
    IF bits <= r.left THEN [r |-> r, ok |-> TRUE]
    ELSE IF r.pos >= Len(r.src) THEN [r |-> r, ok |-> FALSE]
    ELSE ReaderFill([r EXCEPT !.acc = AccOrShl(r.acc, r.src[r.pos + 1], r.left),
                              !.left = r.left + 8,
                              !.pos = r.pos + 1], bits)

\* BitStreamReader::read_bits
ReadBits(r, bits) ==
    With(ReaderFill(r, bits), LAMBDA f :
        IF f.ok THEN [r |-> Reader_advance(f.r, bits), val |-> Some(AccLow(f.r.acc, bits))]
        ELSE [r |-> f.r, val |-> None])

RECURSIVE PeekBits2(_, _)
\* BitStreamReader::_peek_bits2: refill while left <= 64 - 8
PeekBits2(r, bits) ==
    IF r.left > AccBits - 8 THEN [r |-> r, val |-> Some(AccLow(r.acc, bits))]
    ELSE IF r.pos >= Len(r.src)
         THEN [r |-> r,
               val |-> IF bits <= r.left THEN Some(AccLow(r.acc, bits)) ELSE None]
    ELSE PeekBits2([r EXCEPT !.acc = AccOrShl(r.acc, r.src[r.pos + 1], r.left),
                             !.left = r.left + 8,
                             !.pos = r.pos + 1], bits)

\* peek_bits without the refill of _peek_bits2
PeekBitsNoRefill(r, bits) ==
    [r |-> r, val |-> IF bits <= r.left THEN Some(AccLow(r.acc, bits)) ELSE None]

\* BitStreamReader::peek_bits
PeekBits(r, bits) ==
    IF bits <= r.left THEN [r |-> r, val |-> Some(AccLow(r.acc, bits))]
    ELSE PeekBits2(r, bits)

\* BitStreamReader::advance
Advance(r, bits) ==
    IF bits <= r.left THEN [r |-> Reader_advance(r, bits), val |-> Some(0)]
    ELSE
        LET bits_left0 == bits - r.left
            whole == bits_left0 \div 8
            avail == Len(r.src) - r.pos
            bits_left == bits_left0 % 8
        IN  IF whole > avail
            THEN [r |-> [r EXCEPT !.pos = Len(r.src)], val |-> None]
            ELSE IF bits_left > 0
            THEN IF whole + 1 > avail
                 THEN [r |-> [r EXCEPT !.pos = Len(r.src)], val |-> None]
                 ELSE [r |-> [r EXCEPT !.acc = AccShr(AccOfByte(r.src[r.pos + whole + 1]),
                                                      bits_left),
                                       !.left = 8 - bits_left,
                                       !.pos = r.pos + whole + 1],
                       val |-> Some(0)]
            ELSE [r |-> [r EXCEPT !.acc = AccZero, !.left = 0, !.pos = r.pos + whole],
                  val |-> Some(0)]

\* BitStreamReader::read_bool
ReadBool(r) ==
    With(PeekBits(r, 1), LAMBDA p :
        IF IsSome(p.val) THEN [r |-> Reader_advance(p.r, 1), val |-> p.val]
        ELSE [r |-> p.r, val |-> None])

\* BitStreamReader::skip_to_next_byte_boundary
SkipToNextByteBoundary(r) ==
    IF r.left % 8 # 0 THEN Reader_advance(r, r.left % 8) ELSE r

\* BitStreamReader::_iter_next
Reader_iter_next(r) ==
    IF r.pos >= Len(r.src) THEN [r |-> r, val |-> None]
    ELSE [r |-> [r EXCEPT !.pos = r.pos + 1], val |-> Some(r.src[r.pos + 1])]

\* BitStreamReader::_read_next_byte
Reader_read_next_byte(r) ==
    IF r.left = 0 THEN Reader_iter_next(r) ELSE ReadBits(r, 8)

RECURSIVE ReadNextBytesLoop(_, _, _)
ReadNextBytesLoop(r, n, got) ==
    IF n = 0 THEN [r |-> r, val |-> Some(got)]
    ELSE With(Reader_read_next_byte(r), LAMBDA b :
         IF IsSome(b.val) THEN ReadNextBytesLoop(b.r, n - 1, Append(got, Unwrap(b.val)))
         ELSE [r |-> b.r, val |-> None])

\* BitStreamReader::read_next_bytes::<N>
ReadNextBytes(r, n) == ReadNextBytesLoop(SkipToNextByteBoundary(r), n, <<>>)

\* BitStreamReader::read_next_bytes_slice
ReadNextBytesSlice(r, size) ==
    With(SkipToNextByteBoundary(r), LAMBDA r1 :
    IF size = 0 THEN [r |-> r1, val |-> Some(<<>>)]
    ELSE
        With(IF r1.left > 0
             THEN [r1 EXCEPT !.left = 0, !.pos = r1.pos - (r1.left \div 8)]
             ELSE r1, LAMBDA r2 :
            IF size <= Len(r2.src) - r2.pos
            THEN [r |-> [r2 EXCEPT !.pos = r2.pos + size],
                  val |-> Some(SubSeq(r2.src, r2.pos + 1, r2.pos + size))]
            ELSE [r |-> r2, val |-> None]))

-----------------------------------------------------------------------------
(* num/vl_integer.rs: VarLenInteger (VarBitValue): [size, value] *)

\* VarLenInteger::new: the value is cut to 24 bits, not to `size`
VarBitNew(size, value) == [size |-> size, value |-> value % Pow2(24)]

\* VarLenInteger::new_checked
VarBitNewChecked(size, value) ==
    IF value <= BitSizeMask(size) THEN Some([size |-> size, value |-> value]) ELSE None

\* VarLenInteger::new_truncated
VarBitNewTruncated(size, value) == [size |-> size, value |-> value % Pow2(size)]

\* VarLenInteger::with_bool
VarBitWithBool(b) == [size |-> 1, value |-> IF b THEN 1 ELSE 0]

\* VarLenInteger::with_byte
VarBitWithByte(b) == [size |-> 8, value |-> b]

\* VarLenInteger::with_nibble
VarBitWithNibble(n) == [size |-> 4, value |-> n]

RECURSIVE ReverseLow(_, _)
\* the low `size` bits of value, mirrored
ReverseLow(value, size) ==
    IF size = 0 THEN 0
    ELSE (value % 2) * Pow2(size - 1) + ReverseLow(value \div 2, size - 1)

\* VarLenInteger::reversed: (raw.reverse_bits() >> (32 - size)); raw holds the
\* size in bits 24..31, which the shift drops, as it drops value bits >= size
VarBitReversed(v) == [size |-> v.size, value |-> ReverseLow(v.value, v.size)]

-----------------------------------------------------------------------------
(* entropy/prefix/decode.rs: CanonicalPrefixDecoder *)

MAX_LOOKUP_TABLE_BITS == 12

\* DecodeTreeNode::LITERAL_FLAG
LITERAL_FLAG == 32768

\* largest code length a DEFLATE length table carries (inflate reads the
\* lengths from 3-bit fields and from the symbols 0..15 of the meta code)
MaxCodeLen == 15

\* the greatest and the least member of a nonempty set of integers
SetMax(S) == CHOOSE x \in S : \A y \in S : y <= x

SetMin(S) == CHOOSE x \in S : \A y \in S : x <= y

\* the symbols with length `bits`, ascending
SymsOfLen(lengths, bits) ==
    SelectSeq([i \in 1..Len(lengths) |-> i - 1], LAMBDA sym : lengths[sym + 1] = bits)

\* the nonzero lengths of the array (u8 values) that are at least `bits`
LengthsFrom(lengths, bits) ==
    {lengths[i] : i \in 1..Len(lengths)} \cap {b \in 1..255 : b >= bits}

RECURSIVE SortedSymsFrom(_, _)
\* the sorted list from the first symbol whose length is at least `bits`
SortedSymsFrom(lengths, bits) ==
    With(LengthsFrom(lengths, bits), LAMBDA rest :
        IF rest = {} THEN <<>>
        ELSE SymsOfLen(lengths, SetMin(rest)) \o SortedSymsFrom(lengths, SetMin(rest) + 1))

\* reorder_prefix_table, the filter and the sort: the symbols of nonzero
\* length by (length, symbol)
SortedSyms(lengths) == SortedSymsFrom(lengths, 1)

\* what reorder_prefix_table and with_lengths leave when an unwrap panics
PrefixPanic == [ok |-> FALSE, table |-> <<>>, panic |-> TRUE]

\* whether a result of reorder_prefix_table is the panic
IsPrefixPanic(r) == "panic" \in DOMAIN r

RECURSIVE AssignCodes(_, _, _, _)
\* reorder_prefix_table, the loop, run one code length at a time over the
\* sorted list from the first length >= bits: acc <<= 1 once per bit the
\* length grew, each code is acc, then acc += 1. BitSize::new(bits).unwrap()
\* panics on a length above 24, before new_checked is called; new_checked
\* fails when acc needs more than `bits` bits. acc is at most 2^last_bits
\* after an item, so the shift stays within 32 bits for every length <= 24
AssignCodes(lengths, bits, acc, last_bits) ==
    With(LengthsFrom(lengths, bits), LAMBDA rest :
    IF rest = {} THEN [ok |-> TRUE, table |-> <<>>]
    ELSE IF ~IsSome(BitSizeNew(SetMin(rest))) THEN PrefixPanic
    ELSE
        With(SetMin(rest), LAMBDA b :
        With(SymsOfLen(lengths, b), LAMBDA syms :
        LET n == Len(syms)
            acc1 == acc * Pow2(IF last_bits < b THEN b - last_bits ELSE 0)
        IN  IF ~IsSome(VarBitNewChecked(b, acc1 + n - 1))
            THEN [ok |-> FALSE, table |-> <<>>]
            ELSE With(AssignCodes(lengths, b + 1, acc1 + n, b), LAMBDA tail :
                 IF IsPrefixPanic(tail) THEN tail
                 ELSE IF tail.ok
                 THEN [ok |-> TRUE,
                       table |-> [k \in 1..n |->
                                    [sym |-> syms[k], size |-> b,
                                     value |-> Unwrap(VarBitNewChecked(b, acc1 + k - 1)).value]]
                                 \o tail.table]
                 ELSE tail))))

\* CanonicalPrefixDecoder::reorder_prefix_table: Ok(table), Err(InvalidData)
\* or the panic
ReorderPrefixTable(lengths) == AssignCodes(lengths, 1, 0, 0)

\* one half of a tree cell: the child under a bit
TreeChild(tree, index, bit) == tree[index + 1][bit + 1]

\* decode_tree[index] |= v under bit 0 and |= v << 16 under bit 1. A cell is
\* a u32 kept as its two 16-bit halves: under bit 0 the bits of v from 16 on
\* fall into the upper half, under bit 1 the shift drops them
TreeSetChild(tree, index, bit, v) ==
    IF bit = 0
    THEN [tree EXCEPT ![index + 1] = <<BitOr(@[1], v % 65536),
                                       BitOr(@[2], (v \div 65536) % 65536)>>]
    ELSE [tree EXCEPT ![index + 1] = <<@[1], BitOr(@[2], v % 65536)>>]

RECURSIVE InsertWalk(_, _, _, _)
\* insert_node, the walk over the first size - 1 bits (most significant first)
\* returns the tree and the node the last bit hangs from, or fails on a leaf
InsertWalk(tree, index, rpath, steps) ==
    IF steps = 0 THEN [ok |-> TRUE, tree |-> tree, index |-> index]
    ELSE
        LET bit == rpath % 2
            next == TreeChild(tree, index, bit)
        IN  IF BitAnd(next, LITERAL_FLAG) # 0 THEN [ok |-> FALSE, tree |-> tree, index |-> index]
            ELSE IF next = 0
            THEN LET new_index == Len(tree) IN
                 InsertWalk(Append(TreeSetChild(tree, index, bit, new_index), <<0, 0>>),
                            new_index, rpath \div 2, steps - 1)
            ELSE InsertWalk(tree, next, rpath \div 2, steps - 1)

\* CanonicalPrefixDecoder::insert_node
InsertNode(tree, path, value) ==
    With(InsertWalk(tree, 0, VarBitReversed(path).value, path.size - 1), LAMBDA w :
    IF ~w.ok THEN [ok |-> FALSE, tree |-> tree]
    ELSE [ok |-> TRUE,
          tree |-> TreeSetChild(w.tree, w.index,
                                Shr(VarBitReversed(path).value, path.size - 1) % 2,
                                BitOr(LITERAL_FLAG, value))])

RECURSIVE InsertAll(_, _, _, _)
\* with_lengths, lines 74-76: insert_node for table[lo..hi] in order, stopping
\* at the first failure
InsertAll(tree, table, lo, hi) ==
    IF lo > hi THEN [ok |-> TRUE, tree |-> tree]
    ELSE IF lo = hi THEN InsertNode(tree, table[lo], table[lo].sym)
    ELSE With(InsertAll(tree, table, lo, (lo + hi) \div 2), LAMBDA first :
         IF first.ok THEN InsertAll(first.tree, table, (lo + hi) \div 2 + 1, hi) ELSE first)

\* Iterator::max and Iterator::min over a sequence (0 when it is empty)
SeqMax(f, n) == IF n = 0 THEN 0 ELSE SetMax({f[k] : k \in 1..n})

SeqMin(f, n) == IF n = 0 THEN 0 ELSE SetMin({f[k] : k \in 1..n})

\* with_lengths, line 105: the filter that makes prefix_table2 computes
\* peek_bits - min_bits in usize for every entry with sym < 256; the
\* subtraction underflows when every code is longer than peek_bits
Prefix2Underflows(table, peek_bits, min_bits) ==
    /\ peek_bits < min_bits
    /\ \E k \in 1..Len(table) : table[k].sym < 256

\* path.size() <= (peek_bits - min_bits) in usize arithmetic without overflow
\* checks: an underflowed difference wraps to a value above every size
SizeWithinWrappedSub(size, peek_bits, min_bits) ==
    IF peek_bits >= min_bits THEN size <= peek_bits - min_bits ELSE TRUE

\* CanonicalPrefixDecoder::with_lengths: [ok, dec]; every failure is
\* InvalidData, but for two panics: the one of reorder_prefix_table on a
\* length above 24, and, in a build with overflow checks (overflow_checks:
\* the debug profile), the underflow of line 105 on the literal/length decoder
WithLengths(lengths, is_lzss_lit, overflow_checks) ==
    LET bad == [ok |-> FALSE, dec |-> <<>>] IN
    With(ReorderPrefixTable(lengths), LAMBDA re :
    IF IsPrefixPanic(re) THEN [ok |-> FALSE, dec |-> <<>>, panic |-> TRUE]
    ELSE IF ~re.ok THEN bad
    ELSE IF Len(re.table) < 2 THEN bad
    ELSE With(InsertAll(<< <<0, 0>> >>, re.table, 1, Len(re.table)), LAMBDA built :
    IF ~built.ok THEN bad
    ELSE With([k \in 1..Len(re.table) |-> re.table[k].size] \o <<>>, LAMBDA sizes :
         With(SeqMax(sizes, Len(sizes)), LAMBDA max_bits :
         With(IF is_lzss_lit THEN Min(max_bits * 2, MAX_LOOKUP_TABLE_BITS)
              ELSE Min(max_bits, MAX_LOOKUP_TABLE_BITS), LAMBDA peek_bits :
         IF /\ is_lzss_lit
            /\ overflow_checks
            /\ Prefix2Underflows(re.table, peek_bits, SeqMin(sizes, Len(sizes)))
         THEN [ok |-> FALSE, dec |-> <<>>, panic |-> TRUE]
         ELSE
         [ok |-> TRUE,
          dec |-> [prefix_table |-> re.table,
                   rpath |-> [k \in 1..Len(re.table) |->
                                VarBitReversed(re.table[k]).value] \o <<>>,
                   decode_tree |-> built.tree,
                   peek_bits |-> peek_bits,
                   max_bits |-> max_bits,
                   min_bits |-> SeqMin(sizes, Len(sizes)),
                   is_lzss_lit |-> is_lzss_lit]])))))

\* LitLen2::from_lit_len
FromLitLen(value) ==
    IF value < 256 THEN [kind |-> "Single", a |-> value, b |-> 0]
    ELSE IF value = 256 THEN [kind |-> "EndOfBlock", a |-> 0, b |-> 0]
    ELSE [kind |-> "Length", a |-> (value - 257) % 256, b |-> 0]

\* LookupTableEntry::EMPTY and LookupTableEntry2::EMPTY: no bit length
EntryEmpty == [bits |-> 0, symbol1 |-> 0]

Entry2Empty == [bits |-> 0, lit |-> [kind |-> "EndOfBlock", a |-> 0, b |-> 0]]

\* with_lengths, lines 83-95, seen from one index of lookup_table: every code
\* of at most peek_bits bits writes its entry at rpath + j * 2^size; the index
\* keeps the last write
LookupFill(dec, key) ==
    LET hits == {k \in 1..Len(dec.prefix_table) :
                    /\ dec.prefix_table[k].size <= dec.peek_bits
                    /\ key % Pow2(dec.prefix_table[k].size) = dec.rpath[k]}
    IN  IF hits = {} THEN EntryEmpty
        ELSE LET c == dec.prefix_table[SetMax(hits)] IN
             [bits |-> c.size, symbol1 |-> c.sym % 512]

\* lookup_table.get(key): the table is only built when !is_lzss_lit
LookupTableGet(dec, key) ==
    IF dec.is_lzss_lit THEN None ELSE Some(LookupFill(dec, key))

\* lookup_table2 with the two literals of a Double entry in the wrong order
Lookup2FillSwapped(dec, key) ==
    LET hits == {k \in 1..Len(dec.prefix_table) :
                    /\ dec.prefix_table[k].size <= dec.peek_bits
                    /\ key % Pow2(dec.prefix_table[k].size) = dec.rpath[k]}
    IN  IF hits = {} THEN Entry2Empty
        ELSE
            LET k1 == SetMax(hits)
                c1 == dec.prefix_table[k1]
                doubles ==
                    IF c1.sym > 255 \/ c1.size + dec.min_bits > dec.peek_bits THEN {}
                    ELSE {j \in 1..Len(dec.prefix_table) :
                            /\ dec.prefix_table[j].sym < 256
                            /\ c1.size + dec.prefix_table[j].size <= dec.peek_bits
                            /\ key % Pow2(c1.size + dec.prefix_table[j].size)
                                 = dec.rpath[k1] + dec.rpath[j] * Pow2(c1.size)}
            IN  IF doubles = {} THEN [bits |-> c1.size, lit |-> FromLitLen(c1.sym)]
                ELSE LET c2 == dec.prefix_table[SetMax(doubles)] IN
                     [bits |-> c1.size + c2.size,
                      lit |-> [kind |-> "Double", a |-> c2.sym % 256, b |-> c1.sym % 256]]

\* with_lengths, lines 109-144, seen from one index of lookup_table2: the
\* codes write in table order, each its Single/Length/EndOfBlock entry and
\* then, for a literal, the Double entries with every literal of prefix_table2
\* (sym < 256, size <= peek_bits - min_bits, the difference wrapping where
\* with_lengths did not panic on it); the index keeps the last write
Lookup2Fill(dec, key) ==
    LET hits == {k \in 1..Len(dec.prefix_table) :
                    /\ dec.prefix_table[k].size <= dec.peek_bits
                    /\ key % Pow2(dec.prefix_table[k].size) = dec.rpath[k]}
    IN  IF hits = {} THEN Entry2Empty
        ELSE
            LET k1 == SetMax(hits)
                c1 == dec.prefix_table[k1]
                doubles ==
                    IF c1.sym > 255 \/ c1.size + dec.min_bits > dec.peek_bits THEN {}
                    ELSE {j \in 1..Len(dec.prefix_table) :
                            /\ dec.prefix_table[j].sym < 256
                            /\ SizeWithinWrappedSub(dec.prefix_table[j].size,
                                                    dec.peek_bits, dec.min_bits)
                            /\ c1.size + dec.prefix_table[j].size <= BitSizeMax
                            /\ c1.size + dec.prefix_table[j].size <= dec.peek_bits
                            /\ key % Pow2(c1.size + dec.prefix_table[j].size)
                                 = dec.rpath[k1] + dec.rpath[j] * Pow2(c1.size)}
            IN  IF doubles = {} THEN [bits |-> c1.size, lit |-> FromLitLen(c1.sym)]
                ELSE LET c2 == dec.prefix_table[SetMax(doubles)] IN
                     [bits |-> c1.size + c2.size,
                      lit |-> [kind |-> "Double", a |-> c1.sym % 256, b |-> c2.sym % 256]]

\* lookup_table2.get(key): the table is only built when is_lzss_lit
LookupTable2Get(dec, key) ==
    IF dec.is_lzss_lit THEN Some(Lookup2Fill(dec, key)) ELSE None

RECURSIVE DecodeSlowFrom(_, _, _)
\* decode_slow: walk the tree one read_bool at a time; a child without
\* LITERAL_FLAG is taken as a node index (an absent child is index 0, the root)
DecodeSlowFrom(dec, r, index) ==
    With(ReadBool(r), LAMBDA b :
    IF ~IsSome(b.val) THEN [r |-> b.r, res |-> "UnexpectedEof", val |-> 0]
    ELSE
        LET next == TreeChild(dec.decode_tree, index, Unwrap(b.val)) IN
        IF BitAnd(next, LITERAL_FLAG) = 0 THEN DecodeSlowFrom(dec, b.r, next)
        ELSE [r |-> b.r, res |-> "Ok", val |-> next - LITERAL_FLAG])

\* CanonicalPrefixDecoder::decode_slow
DecodeSlow(dec, r) == DecodeSlowFrom(dec, r, 0)

\* CanonicalPrefixDecoder::decode: [r, res, val]
Decode(dec, r) ==
    With(PeekBits(r, dec.peek_bits), LAMBDA p :
    IF IsSome(p.val)
    THEN With(LookupTableGet(dec, Unwrap(p.val)), LAMBDA e :
         IF ~IsSome(e) THEN [r |-> p.r, res |-> "InvalidData", val |-> 0]
         ELSE IF Unwrap(e).bits # 0
         THEN [r |-> Advance(p.r, Unwrap(e).bits).r, res |-> "Ok", val |-> Unwrap(e).symbol1]
         ELSE DecodeSlow(dec, p.r))
    ELSE DecodeSlow(dec, p.r))

\* CanonicalPrefixDecoder::decode2_slow
Decode2Slow(dec, r) ==
    With(DecodeSlow(dec, r), LAMBDA d :
        [r |-> d.r, res |-> d.res, lit |-> FromLitLen(d.val)])

\* CanonicalPrefixDecoder::decode2: [r, res, lit]
Decode2(dec, r) ==
    With(PeekBits(r, dec.peek_bits), LAMBDA p :
    IF IsSome(p.val)
    THEN With(LookupTable2Get(dec, Unwrap(p.val)), LAMBDA e :
         IF ~IsSome(e) THEN [r |-> p.r, res |-> "InvalidData", lit |-> FromLitLen(256)]
         ELSE IF Unwrap(e).bits # 0
         THEN [r |-> Advance(p.r, Unwrap(e).bits).r, res |-> "Ok", lit |-> Unwrap(e).lit]
         ELSE Decode2Slow(dec, p.r))
    ELSE Decode2Slow(dec, p.r))

-----------------------------------------------------------------------------
(* num/bits.rs: BitStreamWriter: [buf, acc, bit_position] *)

\* BitStreamWriter::new
WriterNew == [buf |-> <<>>, acc |-> 0, bit_position |-> 0]

\* BitStreamWriter::bit_count
WriterBitCount(w) == Len(w.buf) * 8 + w.bit_position

RECURSIVE PushWholeBytes(_, _, _)
\* push, the inner loop: while remain_bits >= 8 { buf.push(acc32 as u8); ... }
PushWholeBytes(buf, acc32, remain_bits) ==
    IF remain_bits >= 8
    THEN PushWholeBytes(Append(buf, acc32 % 256), acc32 \div 256, remain_bits - 8)
    ELSE [buf |-> buf, acc32 |-> acc32, remain_bits |-> remain_bits]

\* a push that forgets the bits left over after the whole bytes (acc = 0
\* where the code has acc = acc32 as u8)
WriterPushDropCarry(w, value) ==
    LET lowest_bits == 8 - w.bit_position
        lowest_bit_mask == (Pow2(Min(value.size, lowest_bits)) - 1) % 256
        acc == BitOr(w.acc,
                     (BitAnd(value.value % 256, lowest_bit_mask) * Pow2(w.bit_position)) % 256)
    IN  IF w.bit_position + value.size >= 8
        THEN LET remain_bits == value.size - lowest_bits
                 buf1 == Append(w.buf, acc)
             IN  IF remain_bits > 0
                 THEN LET acc32 == Shr(value.value % Pow2(value.size), lowest_bits)
                          t == PushWholeBytes(buf1, acc32, remain_bits)
                      IN  [buf |-> t.buf, acc |-> 0, bit_position |-> t.remain_bits]
                 ELSE [buf |-> buf1, acc |-> 0, bit_position |-> 0]
        ELSE [buf |-> w.buf, acc |-> acc, bit_position |-> w.bit_position + value.size]

\* BitStreamWriter::push
WriterPush(w, value) ==
    LET lowest_bits == 8 - w.bit_position
        lowest_bit_mask == (Pow2(Min(value.size, lowest_bits)) - 1) % 256
        acc == BitOr(w.acc,
                     (BitAnd(value.value % 256, lowest_bit_mask) * Pow2(w.bit_position)) % 256)
    IN  IF w.bit_position + value.size >= 8
        THEN LET remain_bits == value.size - lowest_bits
                 buf1 == Append(w.buf, acc)
             IN  IF remain_bits > 0
                 THEN LET acc32 == Shr(value.value % Pow2(value.size), lowest_bits)
                          t == PushWholeBytes(buf1, acc32, remain_bits)
                      IN  [buf |-> t.buf, acc |-> t.acc32 % 256, bit_position |-> t.remain_bits]
                 ELSE [buf |-> buf1, acc |-> 0, bit_position |-> 0]
        ELSE [buf |-> w.buf, acc |-> acc, bit_position |-> w.bit_position + value.size]

RECURSIVE WriterPushRange(_, _, _, _)
\* the pushes of values[lo..hi] in order, split in halves
WriterPushRange(w, values, lo, hi) ==
    IF lo > hi THEN w
    ELSE IF lo = hi THEN WriterPush(w, values[lo])
    ELSE LET mid == (lo + hi) \div 2
             first == WriterPushRange(w, values, lo, mid)
         IN  \* push leaves bit_position below 8 (its debug_assert)
             IF first.bit_position < 8 THEN WriterPushRange(first, values, mid + 1, hi)
             ELSE first

\* BitStreamWriter::push_slice, from values[k] on
WriterPushSlice(w, values, k) == WriterPushRange(w, values, k, Len(values))

\* a skip that flushes the partial byte and keeps it in the accumulator
WriterSkipKeepAcc(w) ==
    IF w.bit_position > 0
    THEN [buf |-> Append(w.buf, w.acc), acc |-> w.acc, bit_position |-> 0]
    ELSE w

\* BitStreamWriter::skip_to_next_byte_boundary
WriterSkipToNextByteBoundary(w) ==
    IF w.bit_position > 0
    THEN [buf |-> Append(w.buf, w.acc), acc |-> 0, bit_position |-> 0]
    ELSE w

\* BitStreamWriter::extend_from_slice
WriterExtendFromSlice(w, bytes) ==
    With(WriterSkipToNextByteBoundary(w), LAMBDA w1 : [w1 EXCEPT !.buf = w1.buf \o bytes])

\* BitStreamWriter::into_bytes
WriterIntoBytes(w) == WriterSkipToNextByteBoundary(w).buf

-----------------------------------------------------------------------------
(* entropy/prefix/encode.rs: CanonicalPrefixCoder *)

\* HuffmanTreeNode: [freq, leaf, sym, hist]; hist[d + 1] is the number of
\* leaves d levels below the node, all count_prefix_size looks at

HuffLeaf(sym, freq) == [freq |-> freq, leaf |-> TRUE, sym |-> sym, hist |-> <<1>>]

HistAt(h, k) == IF k <= Len(h) THEN h[k] ELSE 0

\* HuffmanTreeNode::make_pair
HuffMakePair(left, right) ==
    [freq |-> left.freq + right.freq, leaf |-> FALSE, sym |-> 0,
     hist |-> <<0>> \o [k \in 1..Max(Len(left.hist), Len(right.hist)) |->
                            HistAt(left.hist, k) + HistAt(right.hist, k)]]

\* HuffmanTreeNode::order: -1 Less, 0 Equal, 1 Greater
HuffOrder(a, b) ==
    IF b.freq < a.freq THEN -1
    ELSE IF b.freq > a.freq THEN 1
    ELSE IF a.leaf /\ b.leaf
         THEN (IF b.sym < a.sym THEN -1 ELSE IF b.sym > a.sym THEN 1 ELSE 0)
    ELSE IF a.leaf THEN 1
    ELSE IF b.leaf THEN -1
    ELSE 0

\* by frequency, most frequent first; ties by symbol
FreqOrder(a, b) ==
    IF b.freq < a.freq THEN -1
    ELSE IF b.freq > a.freq THEN 1
    ELSE IF a.sym < b.sym THEN -1
    ELSE IF a.sym > b.sym THEN 1
    ELSE 0

\* by symbol
SymOrder(a, b) == IF a.sym < b.sym THEN -1 ELSE IF a.sym > b.sym THEN 1 ELSE 0

\* by code size, ties by symbol
SizeSymOrder(a, b) ==
    IF a.size < b.size THEN -1
    ELSE IF a.size > b.size THEN 1
    ELSE SymOrder(a, b)

\* the comparator closures handed to sort_by
Compare(order, a, b) ==
    CASE order = "huff" -> HuffOrder(a, b)
      [] order = "freq" -> FreqOrder(a, b)
      [] order = "sym" -> SymOrder(a, b)
      [] order = "size_sym" -> SizeSymOrder(a, b)

\* slice::sort_by (a stable sort) under one of the comparators above: an
\* element lands behind those that are smaller and those that are equal and
\* came before it
StableSort(seq, order) ==
    LET n == Len(seq)
        rank == [i \in 1..n |->
                    Cardinality({j \in 1..n :
                        LET c == Compare(order, seq[j], seq[i]) IN
                        c < 0 \/ (c = 0 /\ j <= i)})] \o <<>>
    IN  [p \in 1..n |-> seq[CHOOSE i \in 1..n : rank[i] = p]] \o <<>>

RECURSIVE HuffBuild(_)
\* generate_prefix_table: while tree.len() > 1 { sort; pop; pop; push pair }
HuffBuild(tree) ==
    IF Len(tree) <= 1 THEN tree
    ELSE With(StableSort(tree, "huff"), LAMBDA t :
         LET left == t[Len(t)]
             right == t[Len(t) - 1]
         IN  HuffBuild(Append(SubSeq(t, 1, Len(t) - 2), HuffMakePair(left, right))))

RECURSIVE RangeSum(_, _, _)
\* f[lo] + ... + f[hi], by halves
RangeSum(f, lo, hi) ==
    IF lo > hi THEN 0
    ELSE IF lo = hi THEN f[lo]
    ELSE RangeSum(f, lo, (lo + hi) \div 2) + RangeSum(f, (lo + hi) \div 2 + 1, hi)

RECURSIVE SeqSum(_, _)
SeqSum(f, k) == IF k = 0 THEN 0 ELSE f[k] + SeqSum(f, k - 1)

\* a clip to max_len that leaves the lengths as they are afterwards
AdjustLoopNone(t, total, one, max_len) == t

RECURSIVE AdjustLoop(_, _, _, _)
\* _adjust_prefix_lengths, the while total > one loop; t is indexed by
\* bit length + 1
AdjustLoop(t, total, one, max_len) ==
    IF total <= one THEN t
    ELSE
        LET t1 == [t EXCEPT ![max_len + 1] = @ - 1]
            cand == {i \in 1..(max_len - 1) : t1[i + 1] > 0}
            t2 == IF cand = {} THEN t1
                  ELSE LET i == CHOOSE c \in cand : \A d \in cand : d <= c IN
                       [t1 EXCEPT ![i + 1] = @ - 1, ![i + 2] = @ + 2]
        IN  AdjustLoop(t2, total - 1, one, max_len)

\* CanonicalPrefixCoder::_adjust_prefix_lengths
AdjustPrefixLengths(t, max_len) ==
    IF Len(t) <= max_len THEN t
    ELSE
        LET extra_bits == SeqSum([k \in 1..(Len(t) - max_len) |-> t[max_len + k]],
                                 Len(t) - max_len)
            t1 == [k \in 1..Len(t) |->
                      IF k = max_len + 1 THEN extra_bits
                      ELSE IF k > max_len + 1 THEN 0
                      ELSE t[k]] \o <<>>
            total == SeqSum([i \in 1..max_len |-> t1[i + 1] * Pow2(max_len - i)], max_len)
        IN  AdjustLoop(t1, total, Pow2(max_len), max_len)

RECURSIVE PrefixCodesNoShift(_, _, _, _)
\* the codes counted up without the shift at a longer bit length
PrefixCodesNoShift(prefix_lengths, bit_len, acc, last_bits) ==
    IF bit_len >= Len(prefix_lengths) THEN <<>>
    ELSE
        LET count == prefix_lengths[bit_len + 1] IN
        [k \in 1..count |-> VarBitNew(bit_len, acc + k - 1)]
        \o PrefixCodesNoShift(prefix_lengths, bit_len + 1, acc + count, bit_len)

RECURSIVE PrefixCodes(_, _, _, _)
\* generate_prefix_table, lines 90-104, run one bit length at a time: the
\* codes in order of bit length, from the number of codes of each length
\* (prefix_lengths[bit_len + 1])
PrefixCodes(prefix_lengths, bit_len, acc, last_bits) ==
    IF bit_len >= Len(prefix_lengths) THEN <<>>
    ELSE
        LET count == prefix_lengths[bit_len + 1]
            acc1 == IF last_bits < bit_len THEN acc * Pow2(bit_len - last_bits) ELSE acc
        IN  IF count = 0 THEN PrefixCodes(prefix_lengths, bit_len + 1, acc, last_bits)
            ELSE [k \in 1..count |-> VarBitNew(bit_len, acc1 + k - 1)]
                 \o PrefixCodes(prefix_lengths, bit_len + 1, acc1 + count, bit_len)

\* generate_prefix_table, lines 106-117: hand the codes to the symbols in
\* frequency order, sort by (size, symbol), hand the codes out again in order
AssignPrefixCodes(freq_sorted, prefix_codes) ==
    LET n == Min(Len(freq_sorted), Len(prefix_codes))
        zipped == [k \in 1..n |-> [sym |-> freq_sorted[k].sym,
                                   size |-> prefix_codes[k].size,
                                   value |-> prefix_codes[k].value]] \o <<>>
        sorted == StableSort(zipped, "size_sym")
    IN  [k \in 1..n |-> [sym |-> sorted[k].sym,
                         size |-> prefix_codes[k].size,
                         value |-> prefix_codes[k].value]] \o <<>>

\* CanonicalPrefixCoder::generate_prefix_table; freq_table: seq of [sym, freq]
GeneratePrefixTable(freq_table, max_len) ==
    IF Len(freq_table) <= 2
    THEN With(StableSort(freq_table, "sym"), LAMBDA input :
         [k \in 1..Len(input) |->
            [sym |-> input[k].sym, size |-> 1, value |-> VarBitNew(1, k - 1).value]] \o <<>>)
    ELSE
        With(StableSort(freq_table, "freq"), LAMBDA sorted :
        LET tree == HuffBuild([k \in 1..Len(sorted) |-> HuffLeaf(sorted[k].sym, sorted[k].freq)])
            prefix_lengths == AdjustPrefixLengths(tree[1].hist, max_len)
        IN  AssignPrefixCodes(sorted, PrefixCodes(prefix_lengths, 0, 0, 0)))

\* the nonzero entries of a frequency array, as [sym, freq] in index order
FreqEntries(freq) ==
    LET idx == SelectSeq([i \in 1..Len(freq) |-> i], LAMBDA i : freq[i] > 0) IN
    [k \in 1..Len(idx) |-> [sym |-> idx[k] - 1, freq |-> freq[idx[k]]]] \o <<>>

\* CanonicalPrefixCoder::make_prefix_table: Option<VarBitValue> per symbol
MakePrefixTable(freq, max_len, min_size) ==
    With(GeneratePrefixTable(StableSort(FreqEntries(freq), "freq"), max_len), LAMBDA table :
    With(Max(1 + SeqMax([k \in 1..Len(table) |-> table[k].sym], Len(table)), min_size),
         LAMBDA size :
        [s \in 1..size |->
            With({k \in 1..Len(table) : table[k].sym = s - 1}, LAMBDA hits :
                IF hits = {} THEN None
                ELSE With(SetMax(hits), LAMBDA k :
                     Some([size |-> table[k].size, value |-> table[k].value])))] \o <<>>))

-----------------------------------------------------------------------------
(* lz/lz.rs: LzOutputBuffer: [buffer, position]; results are [ok, o] *)

\* LzOutputBuffer::new
LzNew(buffer) == [buffer |-> buffer, position |-> 0]

\* LzOutputBuffer::is_eof
LzIsEof(o) == o.position >= Len(o.buffer)

\* LzOutputBuffer::push_literal
LzPushLiteral(o, literal) ==
    IF o.position < Len(o.buffer)
    THEN [ok |-> TRUE,
          o |-> [buffer |-> [o.buffer EXCEPT ![o.position + 1] = literal],
                 position |-> o.position + 1]]
    ELSE [ok |-> FALSE, o |-> o]

\* LzOutputBuffer::extend_from_slice
LzExtendFromSlice(o, data) ==
    IF o.position + Len(data) <= Len(o.buffer)
    THEN [ok |-> TRUE,
          o |-> [buffer |-> [i \in 1..Len(o.buffer) |->
                               IF i > o.position /\ i <= o.position + Len(data)
                               THEN data[i - o.position] ELSE o.buffer[i]] \o <<>>,
                 position |-> o.position + Len(data)]]
    ELSE [ok |-> FALSE, o |-> o]

\* a copy that reads every source byte before the first write
MemcpySnapshot(buffer, dest, src, count) ==
    [i \in 1..Len(buffer) |->
        IF i > dest /\ i <= dest + count THEN buffer[i - dest + src] ELSE buffer[i]] \o <<>>

RECURSIVE Memcpy(_, _, _, _)
\* _memcpy: one byte at a time, front to back; dest and src are offsets into
\* the buffer, so a byte written by an earlier step is read by a later one
Memcpy(buffer, dest, src, count) ==
    IF count = 0 THEN buffer
    ELSE Memcpy([buffer EXCEPT ![dest + 1] = buffer[src + 1]], dest + 1, src + 1, count - 1)

\* LzOutputBuffer::copy_lz past its distance check: the clamped copy
LzCopyBytes(o, distance, copy_len) ==
    LET len == Min(copy_len, Len(o.buffer) - o.position)
        filled == [i \in 1..Len(o.buffer) |->
                     IF i > o.position /\ i <= o.position + len
                     THEN o.buffer[o.position] ELSE o.buffer[i]] \o <<>>
    IN  [ok |-> TRUE,
         o |-> [buffer |-> IF distance = 1 THEN filled
                           ELSE Memcpy(o.buffer, o.position, o.position - distance, len),
                position |-> o.position + len]]

\* copy_lz that takes a distance beyond the output for a copy of nothing
LzCopyLzLenient(o, distance, copy_len) ==
    IF distance > o.position THEN [ok |-> TRUE, o |-> o]
    ELSE LzCopyBytes(o, distance, copy_len)

\* LzOutputBuffer::copy_lz
LzCopyLz(o, distance, copy_len) ==
    IF distance > o.position THEN [ok |-> FALSE, o |-> o]
    ELSE LzCopyBytes(o, distance, copy_len)

-----------------------------------------------------------------------------
(* deflate/mod.rs and deflate/adler32.rs *)

\* VARIABLE_DISTANCE_BASE_TABLE: <<extra bits (0: None), base>> per code 0..29
VARIABLE_DISTANCE_BASE_TABLE ==
    << <<0, 1>>, <<0, 2>>, <<0, 3>>, <<0, 4>>, <<1, 5>>, <<1, 7>>, <<2, 9>>, <<2, 13>>,
       <<3, 17>>, <<3, 25>>, <<4, 33>>, <<4, 49>>, <<5, 65>>, <<5, 97>>, <<6, 129>>,
       <<6, 193>>, <<7, 257>>, <<7, 385>>, <<8, 513>>, <<8, 769>>, <<9, 1025>>,
       <<9, 1537>>, <<10, 2049>>, <<10, 3073>>, <<11, 4097>>, <<11, 6145>>,
       <<12, 8193>>, <<12, 12289>>, <<13, 16385>>, <<13, 24577>> >>

\* VARIABLE_LENGTH_BASE_TABLE: <<extra bits (0: None), base>> per code 0..28
VARIABLE_LENGTH_BASE_TABLE ==
    << <<0, 3>>, <<0, 4>>, <<0, 5>>, <<0, 6>>, <<0, 7>>, <<0, 8>>, <<0, 9>>, <<0, 10>>,
       <<1, 11>>, <<1, 13>>, <<1, 15>>, <<1, 17>>, <<2, 19>>, <<2, 23>>, <<2, 27>>,
       <<2, 31>>, <<3, 35>>, <<3, 43>>, <<3, 51>>, <<3, 59>>, <<4, 67>>, <<4, 83>>,
       <<4, 99>>, <<4, 115>>, <<5, 131>>, <<5, 163>>, <<5, 195>>, <<5, 227>>,
       <<0, 258>> >>

\* var_uint32!::new: the last table entry whose base is <= value decides;
\* [leading, size, trailing] or None
VarUintNew(base_table, value) ==
    LET fit == {k \in 1..Len(base_table) : value >= base_table[k][2]} IN
    IF fit = {} THEN None
    ELSE LET k == SetMax(fit)
             size == base_table[k][1]
             rest == value - base_table[k][2]
         IN  IF rest > Pow2(size) - 1 THEN None
             ELSE Some([leading |-> k - 1, size |-> size, trailing |-> rest])

\* var_uint32!::decode_value: [r, val]
VarUintDecodeValue(base_table, leading, r) ==
    IF leading >= Len(base_table) THEN [r |-> r, val |-> None]
    ELSE LET e == base_table[leading + 1] IN
         IF e[1] > 0
         THEN LET t == ReadBits(r, e[1]) IN
              [r |-> t.r, val |-> IF IsSome(t.val) THEN Some(e[2] + Unwrap(t.val)) ELSE None]
         ELSE [r |-> r, val |-> Some(e[2])]

\* var_uint32!::trailing_bits_for (0: None)
TrailingBitsFor(base_table, leading) ==
    IF leading >= Len(base_table) THEN 0 ELSE base_table[leading + 1][1]

\* WindowSize::preferred, as its discriminant 0..7
WindowSizePreferred(size) ==
    IF size <= 256 THEN 0 ELSE IF size <= 512 THEN 1 ELSE IF size <= 1024 THEN 2
    ELSE IF size <= 2048 THEN 3 ELSE IF size <= 4096 THEN 4 ELSE IF size <= 8192 THEN 5
    ELSE IF size <= 16384 THEN 6 ELSE 7

\* WindowSize::value
WindowSizeValue(ws) == 256 * Pow2(ws)

\* CompressionLevel
Levels == {"Fastest", "Fast", "Default", "Best"}

\* CompressionLevel::is_fast_method
IsFastMethod(level) == level \in {"Fastest", "Fast"}

\* CompressionLevel::zlib_flevel
ZlibFlevel(level) ==
    CASE level = "Fastest" -> 0 [] level = "Fast" -> 1 [] level = "Default" -> 2
      [] level = "Best" -> 3

\* checksum, one turn of the loop over the bytes: s = <<s1, s2>>
Adler32Step(s, byte) ==
    LET s1 == (s[1] + byte) % 65521 IN <<s1, (s[2] + s1) % 65521>>

RECURSIVE Adler32Loop(_, _, _, _)
\* checksum, the loop over data[lo..hi] in order from s, split in halves
Adler32Loop(data, lo, hi, s) ==
    IF lo > hi THEN s
    ELSE IF lo = hi THEN Adler32Step(s, data[lo])
    ELSE LET mid == (lo + hi) \div 2
             first == Adler32Loop(data, lo, mid, s)
         IN  \* both sums stay below the modulus
             IF first[1] < 65521 THEN Adler32Loop(data, mid + 1, hi, first) ELSE first

\* the checksum with its bytes lowest first
Adler32BytesLittleEndian(data) ==
    LET s == Adler32Loop(data, 1, Len(data), <<1, 0>>) IN
    <<s[1] % 256, s[1] \div 256, s[2] % 256, s[2] \div 256>>

\* adler32::checksum, as its four big-endian bytes ((s2 << 16) | s1).to_be_bytes()
Adler32Bytes(data) ==
    LET s == Adler32Loop(data, 1, Len(data), <<1, 0>>) IN
    <<s[2] \div 256, s[2] % 256, s[1] \div 256, s[1] % 256>>

-----------------------------------------------------------------------------
(* lz/lzss.rs, lz/cache.rs, lz/lcp: the tokenizer. Offsets are 0-based as *)
(* in the source; input[k + 1] is the byte at offset k. A token is        *)
(* [lit |-> TRUE, value] or [lit |-> FALSE, len, distance].               *)

\* LZSS::MIN_LEN
LZSS_MIN_LEN == 3

\* LZSS::MAX_LEN
LZSS_MAX_LEN == 4099

\* LZSS::MAX_DISTANCE
LZSS_MAX_DISTANCE == 1048576

\* Configuration::SEARCH_ATTEMPTS
SEARCH_ATTEMPTS == 16

\* lzss::Configuration::new (threshold_len and cache_purge_limit are read by
\* neither encode_fast's search nor encode_lcp)
LzssConfigurationNew(max_distance, max_len, skip_first_literal, search_attempts) ==
    [max_distance |-> Min(max_distance, LZSS_MAX_DISTANCE),
     max_len |-> Min(max_len, LZSS_MAX_LEN),
     skip_first_literal |-> skip_first_literal,
     search_attempts |-> IF search_attempts > 0 THEN search_attempts ELSE SEARCH_ATTEMPTS]

\* deflate::Configuration::lzss_config
LzssConfig(level, ws) ==
    LET window_size == WindowSizeValue(ws)
        max_len == Min(window_size, 258)
    IN  IF IsFastMethod(level) THEN LzssConfigurationNew(window_size, max_len, 1, 1)
        ELSE LzssConfigurationNew(window_size, max_len, 1, 0)

TokLiteral(value) == [lit |-> TRUE, value |-> value, len |-> 0, distance |-> 0]

TokMatch(len, distance) == [lit |-> FALSE, value |-> 0, len |-> len, distance |-> distance]

RECURSIVE MatchingLen(_, _, _, _)
\* lz::matching_len: bytes equal at current + len and current - distance + len
MatchingLen(data, current, distance, len) ==
    IF current + len >= Len(data) THEN len
    ELSE IF data[current + len + 1] # data[current - distance + len + 1] THEN len
    ELSE MatchingLen(data, current, distance, len + 1)

\* Matching3BKey of the three bytes at an offset
Key3(input, at) == <<input[at + 1], input[at + 2], input[at + 3]>>

\* a cache that hands out its newest offset whatever the window says
CacheFirstDistanceAny(input, cursor, max_distance) ==
    LET limit == IF Len(input) < 4 THEN 0 ELSE Len(input) - 2
        list == {p \in 0..(cursor - 1) : Key3(input, p) = Key3(input, cursor)}
    IN  IF cursor >= limit \/ list = {} THEN None
        ELSE Some(cursor - SetMin(list))

\* OffsetCache3::matches().next(): every offset below the cursor has been
\* pushed by advance, in order; the list of the cursor's key is read from its
\* back, and its first item decides (None below min_value)
CacheFirstDistance(input, cursor, max_distance) ==
    LET limit == IF Len(input) < 4 THEN 0 ELSE Len(input) - 2
        min_value == Max(cursor - max_distance, 0)
        list == {p \in 0..(cursor - 1) : Key3(input, p) = Key3(input, cursor)}
    IN  IF cursor >= limit \/ list = {} THEN None
        ELSE IF SetMax(list) >= min_value THEN Some(cursor - SetMax(list))
        ELSE None

RECURSIVE SplitMatchKeepTail(_, _, _, _)
\* a cut that emits the remnant as a match whatever its length
SplitMatchKeepTail(left, distance, max_len, acc) ==
    IF left > max_len
    THEN SplitMatchKeepTail(left - max_len, distance, max_len,
                            [tokens |-> Append(acc.tokens, TokMatch(max_len, distance)),
                             total_len |-> acc.total_len + max_len])
    ELSE [tokens |-> Append(acc.tokens, TokMatch(left, distance)),
          total_len |-> acc.total_len + left]

RECURSIVE SplitMatch(_, _, _, _)
\* the loop that cuts a match of max_len or more: [tokens, total_len]
SplitMatch(left, distance, max_len, acc) ==
    IF left > max_len
    THEN SplitMatch(left - max_len, distance, max_len,
                    [tokens |-> Append(acc.tokens, TokMatch(max_len, distance)),
                     total_len |-> acc.total_len + max_len])
    ELSE IF left >= LZSS_MIN_LEN
    THEN [tokens |-> Append(acc.tokens, TokMatch(left, distance)),
          total_len |-> acc.total_len + left]
    ELSE acc

\* a turn that moves the cursor by the whole match, dropped remnant included
EmitMatchesWholeCount(matches, literal, max_len) ==
    IF matches.len >= LZSS_MIN_LEN
    THEN IF matches.len < max_len
         THEN [tokens |-> <<TokMatch(matches.len, matches.distance)>>, count |-> matches.len]
         ELSE [tokens |-> SplitMatch(matches.len, matches.distance, max_len,
                                     [tokens |-> <<>>, total_len |-> 0]).tokens,
               count |-> matches.len]
    ELSE [tokens |-> <<TokLiteral(literal)>>, count |-> 1]

\* what one turn of the tokenizer loop emits for the match found: [tokens, count]
EmitMatches(matches, literal, max_len) ==
    IF matches.len >= LZSS_MIN_LEN
    THEN IF matches.len < max_len
         THEN [tokens |-> <<TokMatch(matches.len, matches.distance)>>, count |-> matches.len]
         ELSE LET s == SplitMatch(matches.len, matches.distance, max_len,
                                  [tokens |-> <<>>, total_len |-> 0])
              IN  [tokens |-> s.tokens, count |-> s.total_len]
    ELSE [tokens |-> <<TokLiteral(literal)>>, count |-> 1]

RECURSIVE EncodeFastLoop(_, _, _, _)
EncodeFastLoop(input, config, cursor, out) ==
    IF cursor >= Len(input) THEN out
    ELSE
        LET d == CacheFirstDistance(input, cursor, config.max_distance)
            matches == IF IsSome(d)
                       THEN [len |-> MatchingLen(input, cursor + 3, Unwrap(d), 0) + 3,
                             distance |-> Unwrap(d)]
                       ELSE [len |-> 0, distance |-> 0]
            e == EmitMatches(matches, input[cursor + 1], config.max_len)
        IN  EncodeFastLoop(input, config, cursor + e.count, out \o e.tokens)

\* the literals both encoders start with: input.iter().take(cursor)
FirstLiterals(input, cursor) ==
    [k \in 1..Min(cursor, Len(input)) |-> TokLiteral(input[k])] \o <<>>

\* LZSS::encode_fast (input non-empty)
EncodeFast(input, config) ==
    LET cursor == 1 + config.skip_first_literal IN
    EncodeFastLoop(input, config, cursor, FirstLiterals(input, cursor))

RECURSIVE SuffixLess(_, _, _)
\* slice order of the suffixes at offsets a and b
SuffixLess(s, a, b) ==
    IF a >= Len(s) THEN b < Len(s)
    ELSE IF b >= Len(s) THEN FALSE
    ELSE IF s[a + 1] # s[b + 1] THEN s[a + 1] < s[b + 1]
    ELSE SuffixLess(s, a + 1, b + 1)

\* SuffixArray::new(..).as_slice(): the offsets in the order of their suffixes
SuffixArray(s) ==
    LET before(a) == Cardinality({b \in 0..(Len(s) - 1) : b # a /\ SuffixLess(s, b, a)}) IN
    [k \in 1..Len(s) |-> CHOOSE a \in 0..(Len(s) - 1) : before(a) = k - 1] \o <<>>

\* LcpArray::new, the rank array: rank[suffix] = index in sa
RankArray(sa) ==
    [a \in 1..Len(sa) |-> (CHOOSE k \in 1..Len(sa) : sa[k] = a - 1) - 1] \o <<>>

RECURSIVE KasaiExtend(_, _, _, _)
KasaiExtend(s, i, j, k) ==
    IF i + k < Len(s) /\ j + k < Len(s) /\ s[i + k + 1] = s[j + k + 1]
    THEN KasaiExtend(s, i, j, k + 1) ELSE k

RECURSIVE Kasai(_, _, _, _, _, _)
\* LcpArray::_kasai
Kasai(s, sa, rank, i, k, lcp) ==
    IF i >= Len(s) THEN lcp
    ELSE IF rank[i + 1] = Len(s) - 1
    THEN Kasai(s, sa, rank, i + 1, 0, [lcp EXCEPT ![rank[i + 1] + 1] = 0])
    ELSE LET k1 == KasaiExtend(s, i, sa[rank[i + 1] + 2], k) IN
         Kasai(s, sa, rank, i + 1, IF k1 > 0 THEN k1 - 1 ELSE 0,
               [lcp EXCEPT ![rank[i + 1] + 1] = k1])

\* LcpArray::new: [s, sa, lcp, rank]
LcpArrayNew(s) ==
    LET sa == SuffixArray(s)
        rank == RankArray(sa)
    IN  [s |-> s, sa |-> sa, rank |-> rank,
         lcp |-> Kasai(s, sa, rank, 0, 0, [k \in 1..Len(s) |-> 0] \o <<>>)]

\* one candidate of a scan of encode_lcp: [matches, stop]
LcpCandidate(matches, len, distance) ==
    IF matches.len = 0 THEN [matches |-> [len |-> len, distance |-> distance], stop |-> FALSE]
    ELSE IF matches.len > len THEN [matches |-> matches, stop |-> TRUE]
    ELSE IF matches.len < len
    THEN [matches |-> [len |-> len, distance |-> distance], stop |-> FALSE]
    ELSE IF matches.distance > distance
    THEN [matches |-> [matches EXCEPT !.distance = distance], stop |-> FALSE]
    ELSE [matches |-> matches, stop |-> FALSE]

RECURSIVE LcpScan(_, _, _, _, _, _, _)
\* one scan of encode_lcp from index i of the pairs (lcp[i], sa[i + off]) in
\* steps of dir, until index last; lcp_limit starts at usize::MAX, which the
\* length of the input stands for (no lcp is larger)
LcpScan(a, cursor, min_offset, i, dir, matches, lcp_limit) ==
    LET off == IF dir = 1 THEN 1 ELSE 0
        last == IF dir = 1 THEN Len(a.s) - 2 ELSE 0
    IN  IF (dir = 1 /\ i > last) \/ (dir = -1 /\ i < last) THEN matches
        ELSE
            LET lcp == a.lcp[i + 1]
                offset == a.sa[i + off + 1]
            IN  IF lcp < LZSS_MIN_LEN THEN matches
                ELSE IF offset >= min_offset /\ offset < cursor
                THEN LET c == LcpCandidate(matches, Min(lcp_limit, lcp), cursor - offset) IN
                     IF c.stop THEN matches
                     ELSE LcpScan(a, cursor, min_offset, i + dir, dir, c.matches,
                                  Min(lcp_limit, lcp))
                ELSE LcpScan(a, cursor, min_offset, i + dir, dir, matches,
                             Min(lcp_limit, lcp))

\* the match encode_lcp settles on at a cursor
LcpMatches(a, cursor, max_distance) ==
    LET zero == [len |-> 0, distance |-> 0]
        min_offset == Max(cursor - max_distance, 0)
        sa_base_index == a.rank[cursor + 1]
        matches == LcpScan(a, cursor, min_offset, sa_base_index, 1, zero, Len(a.s))
        matches2 == LcpScan(a, cursor, min_offset, sa_base_index - 1, -1, zero, Len(a.s))
    IN  IF sa_base_index > 0
           /\ (matches2.len > matches.len
               \/ (matches2.len = matches.len /\ matches2.distance < matches.distance))
        THEN matches2 ELSE matches

RECURSIVE EncodeLcpLoop(_, _, _, _)
EncodeLcpLoop(a, config, cursor, out) ==
    IF cursor >= Len(a.s) THEN out
    ELSE LET e == EmitMatches(LcpMatches(a, cursor, config.max_distance),
                              a.s[cursor + 1], config.max_len)
         IN  EncodeLcpLoop(a, config, cursor + e.count, out \o e.tokens)

\* LZSS::encode_lcp (input non-empty)
EncodeLcp(input, config) ==
    IF config.search_attempts = 1 THEN EncodeFast(input, config)
    ELSE LET cursor == 1 + config.skip_first_literal IN
         EncodeLcpLoop(LcpArrayNew(input), config, cursor, FirstLiterals(input, cursor))

\* Configuration::THRESHOLD_LEN
THRESHOLD_LEN == 16

\* lzss::Configuration::new, the threshold_len field
ThresholdLen(threshold_len) == IF threshold_len > 0 THEN threshold_len ELSE THRESHOLD_LEN

\* usize::saturating_sub
SaturatingSub(a, b) == IF a > b THEN a - b ELSE 0

\* Matching3BKey::new: the three bytes folded from the last to the first
Matching3BKeyNew(values) == (values[3] * 256 + values[2]) * 256 + values[1]

\* Matching3BKey::key_value: the mask 0x00ff_ffff
Matching3BKeyValue(key) == key % 16777216

\* Matching3BKey::advance
Matching3BKeyAdvance(key, new_value) == (key \div 256) + new_value * 65536

\* Matching3Cache::new; cache is the map from key values to offset lists
OffsetCache3New(source, max_distance, purge_limit) ==
    IF Len(source) < 4
    THEN [source |-> source, key |-> 0, cache |-> <<>>, cursor |-> 0, limit |-> 0,
          max_distance |-> max_distance, purge_count |-> 0, purge_limit |-> 0]
    ELSE [source |-> source, key |-> Matching3BKeyNew(SubSeq(source, 1, 3)),
          cache |-> <<>>, cursor |-> 0, limit |-> Len(source) - 2,
          max_distance |-> max_distance, purge_count |-> 0,
          purge_limit |-> IF purge_limit > 0 THEN purge_limit ELSE max_distance * 2]

\* BTreeMap::entry(key).and_modify(push).or_insert_with(OffsetList::new)
OffsetCachePush(cache, key, value) ==
    IF key \in DOMAIN cache THEN [cache EXCEPT ![key] = Append(@, value)]
    ELSE [k \in DOMAIN cache \cup {key} |-> IF k = key THEN <<value>> ELSE cache[k]]

RECURSIVE OffsetCacheAdvanceLoop(_, _, _, _, _)
\* advance, the loop `for _ in 0..step`: [cursor, key, cache]
OffsetCacheAdvanceLoop(c, n, cursor, key, cache) ==
    IF n = 0 THEN [cursor |-> cursor, key |-> key, cache |-> cache]
    ELSE IF cursor + 1 >= c.limit
    THEN [cursor |-> cursor + 1, key |-> key,
          cache |-> OffsetCachePush(cache, Matching3BKeyValue(key), cursor)]
    ELSE OffsetCacheAdvanceLoop(c, n - 1, cursor + 1,
                                Matching3BKeyAdvance(key, c.source[cursor + 1 + 2 + 1]),
                                OffsetCachePush(cache, Matching3BKeyValue(key), cursor))

\* OffsetList::retain: the list it leaves; the empty list stands for `false`
\* (the map drops the list)
OffsetListRetain(list, min_value) ==
    IF list = <<>> \/ list[Len(list)] < min_value THEN <<>>
    ELSE With({i \in 1..Len(list) : list[i] < min_value}, LAMBDA below :
         IF below = {} THEN list
         ELSE SubSeq(list, SetMax(below) + 1, Len(list)))

\* BTreeMap::retain(|_k, v| v.retain(min_value))
OffsetCacheRetain(cache, min_value) ==
    With({k \in DOMAIN cache : OffsetListRetain(cache[k], min_value) # <<>>}, LAMBDA kept :
        [k \in kept |-> OffsetListRetain(cache[k], min_value)])

\* whether advance(step) purges
OffsetCachePurges(c, step) ==
    c.cursor < c.limit /\ c.purge_count + step >= c.purge_limit

\* OffsetCache::advance(step)
OffsetCacheAdvance(c, step) ==
    IF c.cursor >= c.limit THEN c
    ELSE With(OffsetCacheAdvanceLoop(c, step, c.cursor, c.key, c.cache), LAMBDA r :
         [c EXCEPT !.cursor = r.cursor, !.key = r.key,
                   !.cache = IF OffsetCachePurges(c, step)
                             THEN OffsetCacheRetain(r.cache,
                                      SaturatingSub(c.cursor, c.max_distance))
                             ELSE r.cache,
                   !.purge_count = IF OffsetCachePurges(c, step)
                                   THEN r.cursor % c.max_distance
                                   ELSE c.purge_count + step])

RECURSIVE DistancesAll(_, _, _, _)
\* an iterator that does not stop at min_value
DistancesAll(list, k, current, min_value) ==
    IF k = 0 THEN <<>>
    ELSE <<current - list[k]>> \o DistancesAll(list, k - 1, current, min_value)

RECURSIVE Distances(_, _, _, _)
\* Distances::next until it returns None: the list read from its back
Distances(list, k, current, min_value) ==
    IF k = 0 THEN <<>>
    ELSE IF list[k] >= min_value /\ current - list[k] # 0
    THEN <<current - list[k]>> \o Distances(list, k - 1, current, min_value)
    ELSE <<>>

\* OffsetCache::matches(): the distances its iterator yields
OffsetCacheMatches(c) ==
    IF c.cursor >= c.limit THEN None
    ELSE IF Matching3BKeyValue(c.key) \notin DOMAIN c.cache THEN None
    ELSE Some(Distances(c.cache[Matching3BKeyValue(c.key)],
                        Len(c.cache[Matching3BKeyValue(c.key)]),
                        c.cursor, SaturatingSub(c.cursor, c.max_distance)))

\* OffsetCache::nearest()
OffsetCacheNearest(c) ==
    IF c.cursor >= c.limit THEN None
    ELSE IF Matching3BKeyValue(c.key) \notin DOMAIN c.cache THEN None
    ELSE With(c.cache[Matching3BKeyValue(c.key)], LAMBDA v :
         IF v[Len(v)] >= SaturatingSub(c.cursor, c.max_distance)
         THEN Some(c.cursor - v[Len(v)]) ELSE None)

\* Iterator::take
Take(seq, n) == SubSeq(seq, 1, Min(n, Len(seq)))

\* lz::matching_len as lzss.rs calls it, with a limit on the length (the
\* lz.rs at hand declares it without): the equal bytes, max_len at most
MatchingLenMax(data, current, distance, max_len) ==
    Min(MatchingLen(data, current, distance, 0), max_len)

RECURSIVE FindDistanceMatchesLoop(_, _, _, _, _, _, _, _)
\* find_distance_matches, the loop over dist_iter; matches.len = 0 is None.
\* A candidate counts for max_len bytes at most, the guaranteed ones included
FindDistanceMatchesLoop(input, cursor, max_len, guaranteed_min_len, threshold_max_len, dists, k, matches) ==
    IF k > Len(dists) THEN matches
    ELSE With(MatchingLenMax(input, cursor, dists[k],
                             SaturatingSub(max_len, guaranteed_min_len))
                  + guaranteed_min_len, LAMBDA len :
         IF matches.len < len
         THEN IF len >= threshold_max_len THEN [len |-> len, distance |-> dists[k]]
              ELSE FindDistanceMatchesLoop(input, cursor, max_len, guaranteed_min_len,
                                           threshold_max_len, dists, k + 1,
                                           [len |-> len, distance |-> dists[k]])
         ELSE FindDistanceMatchesLoop(input, cursor, max_len, guaranteed_min_len,
                                      threshold_max_len, dists, k + 1, matches))

\* lz::find_distance_matches as lzss.rs calls it (lines 313-321), with max_len
\* after the cursor: the longest of the candidates, none longer than max_len,
\* [len, distance], len = 0 for None. The lz.rs at hand declares the function
\* without max_len; thresholds and loop are those of its lines 46-70
FindDistanceMatches(input, cursor, max_len, threshold_min, threshold_max, guaranteed_min_len, dists) ==
    With(FindDistanceMatchesLoop(input, cursor + guaranteed_min_len, max_len,
                                 guaranteed_min_len,
                                 SaturatingSub(threshold_max, guaranteed_min_len), dists, 1,
                                 [len |-> 0, distance |-> 0]),
         LAMBDA matches :
        IF matches.len >= SaturatingSub(threshold_min, guaranteed_min_len) THEN matches
        ELSE [len |-> 0, distance |-> 0])

RECURSIVE LzssEncodeLoop(_, _, _, _, _, _)
\* LZSS::encode without a distance_mapping, lines 306-345; the literals kept
\* in lit_buf reach f in input order before the next match does
LzssEncodeLoop(input, config, threshold_len, offset3_cache, cursor, out) ==
    IF cursor >= Len(input) THEN out
    ELSE With(OffsetCacheMatches(offset3_cache), LAMBDA iter :
         With(IF IsSome(iter)
              THEN FindDistanceMatches(input, cursor, config.max_len, LZSS_MIN_LEN,
                                       threshold_len, 3,
                                       Take(Unwrap(iter), config.search_attempts))
              ELSE [len |-> 0, distance |-> 0], LAMBDA matches :
             IF matches.len >= LZSS_MIN_LEN
             THEN LzssEncodeLoop(input, config, threshold_len,
                                 OffsetCacheAdvance(offset3_cache, matches.len),
                                 cursor + matches.len,
                                 Append(out, TokMatch(matches.len, matches.distance)))
             ELSE LzssEncodeLoop(input, config, threshold_len,
                                 OffsetCacheAdvance(offset3_cache, 1), cursor + 1,
                                 Append(out, TokLiteral(input[cursor + 1])))))

\* Configuration::CACHE_PURGE_LIMIT
CACHE_PURGE_LIMIT == 16777216

\* lzss::Configuration::new, the cache_purge_limit field
CachePurgeLimit(cache_purge_limit) ==
    IF cache_purge_limit > 0 THEN cache_purge_limit ELSE CACHE_PURGE_LIMIT

\* LZSS::encode(input, None, config, false, f), input non-empty: [res, tokens].
\* lit_buf starts as the window of the first 1 + skip_first_literal bytes and
\* the cache is advanced over them; into_slice panics when the input is
\* shorter and no match has replaced it
LzssEncode(input, config, threshold_len, cache_purge_limit) ==
    With(1 + config.skip_first_literal, LAMBDA cursor :
        IF cursor > Len(input) THEN [res |-> "panic", tokens |-> <<>>]
        ELSE [res |-> "Ok",
              tokens |-> LzssEncodeLoop(input, config, threshold_len,
                                        OffsetCacheAdvance(
                                            OffsetCache3New(input, config.max_distance,
                                                            cache_purge_limit),
                                            cursor),
                                        cursor, FirstLiterals(input, cursor))])

\* MaybeMatch::new: None (len 0) unless both are nonzero
MaybeMatchNew(len, distance) ==
    IF len > 0 /\ distance > 0 THEN [len |-> len, distance |-> distance]
    ELSE [len |-> 0, distance |-> 0]

\* MatchFinder::matches, `takes`
FINDER_TAKES == 200

\* MatchFinder::matches, the closure `kernel`: [go, matches, lcp_limit]. On
\* equal lengths the nearer distance is written to a copy of the match
\* (matches.get() returns the Option by value), so matches keeps its distance
FinderKernel(q, lcp, offset, lcp_limit, matches) ==
    IF lcp < q.min_len THEN [go |-> FALSE, matches |-> matches, lcp_limit |-> lcp_limit]
    ELSE IF offset >= q.min_offset /\ offset < q.pos
    THEN IF matches.len # 0 /\ matches.len > Min(lcp_limit, lcp)
         THEN [go |-> FALSE, matches |-> matches, lcp_limit |-> lcp_limit]
         ELSE [go |-> TRUE,
               matches |-> IF matches.len = 0 \/ matches.len < Min(lcp_limit, lcp)
                           THEN MaybeMatchNew(Min(lcp_limit, lcp), q.pos - offset)
                           ELSE matches,
               lcp_limit |-> Min(lcp_limit, lcp)]
    ELSE [go |-> TRUE, matches |-> matches, lcp_limit |-> Min(lcp_limit, lcp)]

\* MatchFinder::matches: whether iter1 (dir = 1) or iter2 (dir = -1) has a
\* k-th item (k from 0), and the index into lcp it is taken from
FinderHas(q, dir, k) ==
    /\ k < FINDER_TAKES
    /\ IF dir = 1 THEN q.base + k <= Len(q.a.s) - 2 ELSE q.base > 0 /\ q.base - 1 - k >= 0

FinderIndex(q, dir, k) == IF dir = 1 THEN q.base + k ELSE q.base - 1 - k

\* the k-th item of an iterator through kernel
FinderStep(q, dir, k, lcp_limit, matches) ==
    FinderKernel(q, q.a.lcp[FinderIndex(q, dir, k) + 1],
                 q.a.sa[FinderIndex(q, dir, k) + (IF dir = 1 THEN 1 ELSE 0) + 1],
                 lcp_limit, matches)

RECURSIVE FinderDrain(_, _, _, _, _)
\* MatchFinder::matches: the loop over the one iterator that is left
FinderDrain(q, dir, k, lcp_limit, matches) ==
    IF ~FinderHas(q, dir, k) THEN matches
    ELSE With(FinderStep(q, dir, k, lcp_limit, matches), LAMBDA r :
         IF ~r.go THEN matches
         ELSE FinderDrain(q, dir, k + 1, r.lcp_limit, r.matches))

RECURSIVE FinderBoth(_, _, _, _, _)
\* MatchFinder::matches, lines 180-195: one item of iter1, one of iter2, in
\* turns, until one of them ends or kernel stops it; k counts the turns
FinderBoth(q, k, lcp_limit1, lcp_limit2, matches) ==
    IF ~FinderHas(q, 1, k) THEN FinderDrain(q, -1, k, lcp_limit2, matches)
    ELSE With(FinderStep(q, 1, k, lcp_limit1, matches), LAMBDA r1 :
         IF ~r1.go THEN FinderDrain(q, -1, k, lcp_limit2, matches)
         ELSE IF ~FinderHas(q, -1, k)
         THEN FinderDrain(q, 1, k + 1, r1.lcp_limit, r1.matches)
         ELSE With(FinderStep(q, -1, k, lcp_limit2, r1.matches), LAMBDA r2 :
              IF ~r2.go THEN FinderDrain(q, 1, k + 1, r1.lcp_limit, r1.matches)
              ELSE FinderBoth(q, k + 1, r1.lcp_limit, r2.lcp_limit, r2.matches)))

\* MatchFinder::matches(pos, min_len, max_distance) on MatchFinder::new(s):
\* [len, distance], len = 0 for None; the length of s stands for usize::MAX
FinderMatches(a, pos, min_len, max_distance) ==
    With([a |-> a, pos |-> pos, min_len |-> min_len,
          min_offset |-> SaturatingSub(pos, max_distance), base |-> a.rank[pos + 1]],
         LAMBDA q :
        IF q.base > 0 THEN FinderBoth(q, 0, Len(a.s), Len(a.s), [len |-> 0, distance |-> 0])
        ELSE FinderDrain(q, 1, 0, Len(a.s), [len |-> 0, distance |-> 0]))

-----------------------------------------------------------------------------
(* deflate/deflate.rs: the encoder *)

\* MIN_BLOCK_SIZE
MIN_BLOCK_SIZE == 16384

\* THRESHOLD_STATIC
THRESHOLD_STATIC == 4096

\* the fixed literal/length code lengths (deflate.rs 330-341, inflate.rs 69-80)
FixedLengthsLit ==
    [i \in 1..288 |-> IF i - 1 < 144 THEN 8 ELSE IF i - 1 < 256 THEN 9
                      ELSE IF i - 1 < 280 THEN 7 ELSE 8] \o <<>>

\* inflate_in_place, line 81: the fixed distance code lengths
FixedLengthsDist == [i \in 1..32 |-> 5] \o <<>>

\* DeflateLZIR::with_match: the four fields packed into one u32 (they do not
\* overlap, so | is +)
LzirWithMatch(len, distance) ==
    LET l == Unwrap(VarUintNew(VARIABLE_LENGTH_BASE_TABLE, len))
        d == Unwrap(VarUintNew(VARIABLE_DISTANCE_BASE_TABLE, distance))
    IN  (l.leading + 257) + d.leading * 512 + l.trailing * 16384 + d.trailing * 524288

\* DeflateLZIR::from_lzss
LzirFromLzss(tok) == IF tok.lit THEN tok.value ELSE LzirWithMatch(tok.len, tok.distance)

\* DeflateLZIR::literal_value
LiteralValue(lzir) == lzir % 512

\* DeflateLZIR::distance_value
DistanceValue(lzir) == (lzir \div 512) % 32

\* DeflateLZIR::length_extra_bits: Option<VarBitValue>
LengthExtraBits(lzir) ==
    LET lit_len == LiteralValue(lzir)
        size == IF lit_len >= 257 /\ lit_len <= 285
                THEN TrailingBitsFor(VARIABLE_LENGTH_BASE_TABLE, lit_len - 257) ELSE 0
    IN  IF size = 0 THEN None ELSE Some(VarBitNew(size, (lzir \div 16384) % 32))

\* DeflateLZIR::distance_extra_bits: Option<VarBitValue>
DistanceExtraBits(lzir) ==
    LET size == IF DistanceValue(lzir) <= 29
                THEN TrailingBitsFor(VARIABLE_DISTANCE_BASE_TABLE, DistanceValue(lzir)) ELSE 0
    IN  IF size = 0 THEN None ELSE Some(VarBitNew(size, lzir \div 524288))

\* DeflateIrBlock::new: every item counts in both tables (a literal counts as
\* distance code 0); the end-of-block count is set to 1
IrBlockNew(block) ==
    [block |-> block,
     freq_count_lit |-> [i \in 1..288 |->
        IF i - 1 = 256 THEN 1
        ELSE Cardinality({k \in 1..Len(block) : LiteralValue(block[k]) = i - 1})] \o <<>>,
     freq_count_dist |-> [i \in 1..30 |->
        Cardinality({k \in 1..Len(block) : DistanceValue(block[k]) = i - 1})] \o <<>>,
     is_final |-> FALSE]

\* DeflateIrBlock::estimated_size < THRESHOLD_STATIC. The estimate is
\* ceil((ceil(n_lit * max(H_lit, 1)) + dist_size)/8) in f64, where n_lit and
\* n_dist are the sums of the two frequency tables, dist_size is 0 when
\* H_dist is 0 (at most one distance code occurs) and
\* ceil(n_dist * max(H_dist, 1)) otherwise, with H_lit <= log2(288) < 9 and
\* H_dist <= log2(30) < 5; the floats are not computed, and where these
\* bounds do not decide the comparison both outcomes are possible
EstimatedSizeBelowThreshold(block) ==
    LET n_lit == RangeSum(block.freq_count_lit, 1, 288)
        n_dist == RangeSum(block.freq_count_dist, 1, 30)
        one_dist == Cardinality({i \in 1..30 : block.freq_count_dist[i] > 0}) <= 1
        upper == (n_lit * 9 + (IF one_dist THEN 0 ELSE n_dist * 5) + 7) \div 8
        lower == (n_lit + (IF one_dist THEN 0 ELSE n_dist) + 7) \div 8
    IN  IF upper < THRESHOLD_STATIC THEN {TRUE}
        ELSE IF lower >= THRESHOLD_STATIC THEN {FALSE}
        ELSE BOOLEAN

\* CanonicalPrefixCoder::rle_match_len
RleMatchLen(prev_value, data, cursor, max_len) ==
    LET m == Min(Len(data) - cursor, max_len)
        diff == {len \in 0..(m - 1) : data[cursor + len + 1] # prev_value}
    IN  IF diff = {} THEN m ELSE SetMin(diff)

RECURSIVE RleCompressFrom(_, _, _)
\* CanonicalPrefixCoder::rle_compress_prefix_table, from a cursor on
RleCompressFrom(input, cursor, prev) ==
    IF cursor >= Len(input) THEN <<>>
    ELSE
        LET current == input[cursor + 1] IN
        IF current > 0
        THEN IF current = prev
             THEN LET len == RleMatchLen(prev, input, cursor, 6) IN
                  IF len >= 3
                  THEN <<VarBitWithByte(16), VarBitNew(2, len - 3)>>
                       \o RleCompressFrom(input, cursor + len, prev)
                  ELSE <<VarBitWithByte(current)>> \o RleCompressFrom(input, cursor + 1, prev)
             ELSE <<VarBitWithByte(current)>> \o RleCompressFrom(input, cursor + 1, current)
        ELSE LET len == RleMatchLen(0, input, cursor, 138) IN
             IF len >= 11
             THEN <<VarBitWithByte(18), VarBitNew(7, len - 11)>>
                  \o RleCompressFrom(input, cursor + len, 0)
             ELSE IF len >= 3
             THEN <<VarBitWithByte(17), VarBitNew(3, len - 3)>>
                  \o RleCompressFrom(input, cursor + len, 0)
             ELSE <<VarBitWithByte(current)>> \o RleCompressFrom(input, cursor + 1, 0)

\* PermutationFlavor::ORDER_DEFLATE
ORDER_DEFLATE == <<16, 17, 18, 0, 8, 7, 9, 6, 10, 5, 11, 4, 12, 3, 13, 2, 14, 1, 15>>

\* CanonicalPrefixCoder::encode_prefix_tables for one table of code lengths:
\* [hclen, prefix_table, content]
EncodePrefixTables(table) ==
    With(RleCompressFrom(table, 0, 0), LAMBDA rle :
    With(GeneratePrefixTable(
             StableSort(FreqEntries(
                 [s \in 1..19 |->
                     Cardinality({k \in 1..Len(rle) :
                                     rle[k].size = 8 /\ rle[k].value = s - 1})] \o <<>>),
                 "freq"), 7),
         LAMBDA prefix_table :
    With([s \in 1..20 |->
             With({k \in 1..Len(prefix_table) : prefix_table[k].sym = s - 1}, LAMBDA hits :
                 IF hits = {} THEN None
                 ELSE With(SetMax(hits), LAMBDA k :
                      Some([size |-> prefix_table[k].size,
                            value |-> prefix_table[k].value])))] \o <<>>,
         LAMBDA prefix_map :
    With(SetMax({3} \cup {p \in 0..18 : IsSome(prefix_map[ORDER_DEFLATE[p + 1] + 1])}),
         LAMBDA max_index :
        [hclen |-> max_index - 3,
         prefix_table |-> [p \in 1..(1 + max_index) |->
            With(prefix_map[ORDER_DEFLATE[p] + 1], LAMBDA item :
                VarBitNew(3, IF IsSome(item) THEN Unwrap(item).size ELSE 0))] \o <<>>,
         content |-> [k \in 1..Len(rle) |->
            IF rle[k].size = 8
            THEN VarBitReversed(Unwrap(prefix_map[rle[k].value + 1]))
            ELSE rle[k]] \o <<>>]))))

\* DeflateIrBlock::encode, lines 342-353: the fixed literal/length codes
StaticPrefixTableLit ==
    LET t == ReorderPrefixTable(FixedLengthsLit).table IN
    [s \in 1..288 |->
        LET k == CHOOSE h \in 1..Len(t) : t[h].sym = s - 1 IN
        Some([size |-> t[k].size, value |-> t[k].value])] \o <<>>

\* DeflateIrBlock::encode, lines 355-357: the fixed distance codes
StaticPrefixTableDist == [v \in 1..30 |-> Some(VarBitNew(5, v - 1))] \o <<>>

\* DeflateIrBlock::encode, lines 361-373: the dynamic distance table, padded
\* to two codes
DynamicPrefixTableDist(freq_count_dist) ==
    With(MakePrefixTable(freq_count_dist, 15, 1), LAMBDA t :
        LET count == Cardinality({k \in 1..Len(t) : IsSome(t[k])}) IN
        IF count = 0 THEN t \o <<Some(VarBitWithBool(TRUE)), Some(VarBitWithBool(TRUE))>>
        ELSE IF count < 2 THEN Append(t, Some(VarBitWithBool(TRUE)))
        ELSE t)

\* DeflateIrBlock::encode, lines 402-415: what one item writes
ItemBits(lzir, prefix_table_lit, prefix_table_dist) ==
    LET lit_len == LiteralValue(lzir)
        len_extra == LengthExtraBits(lzir)
        dist_extra == DistanceExtraBits(lzir)
    IN  <<VarBitReversed(Unwrap(prefix_table_lit[lit_len + 1]))>>
        \o (IF lit_len > 256
            THEN (IF IsSome(len_extra) THEN <<Unwrap(len_extra)>> ELSE <<>>)
                 \o <<VarBitReversed(Unwrap(prefix_table_dist[DistanceValue(lzir) + 1]))>>
                 \o (IF IsSome(dist_extra) THEN <<Unwrap(dist_extra)>> ELSE <<>>)
            ELSE <<>>)

RECURSIVE ItemsBits(_, _, _, _, _)
\* what the items block[lo..hi] write, in order, split in halves
ItemsBits(block, lo, hi, prefix_table_lit, prefix_table_dist) ==
    IF lo > hi THEN <<>>
    ELSE IF lo = hi THEN ItemBits(block[lo], prefix_table_lit, prefix_table_dist)
    ELSE LET mid == (lo + hi) \div 2 IN
         ItemsBits(block, lo, mid, prefix_table_lit, prefix_table_dist)
         \o ItemsBits(block, mid + 1, hi, prefix_table_lit, prefix_table_dist)

\* DeflateIrBlock::encode, lines 374-389: bfinal, then btype 1 (static) or 2
BlockFirstBits(is_final, use_static) ==
    <<VarBitWithBool(is_final), VarBitNew(2, IF use_static THEN 1 ELSE 2)>>

\* DeflateIrBlock::encode, lines 378-382: the code lengths of a table, 0 for
\* a symbol without a code
PrefixTableSizes(both) ==
    [k \in 1..Len(both) |-> IF IsSome(both[k]) THEN Unwrap(both[k]).size ELSE 0] \o <<>>

\* DeflateIrBlock::encode: every write of the block, in order
BlockBits(b, use_static) ==
    With(IF use_static THEN StaticPrefixTableLit
         ELSE MakePrefixTable(b.freq_count_lit, 15, 257), LAMBDA prefix_table_lit :
    With(IF use_static THEN StaticPrefixTableDist
         ELSE DynamicPrefixTableDist(b.freq_count_dist), LAMBDA prefix_table_dist :
        BlockFirstBits(b.is_final, use_static)
        \o (IF use_static THEN <<>>
            ELSE With(EncodePrefixTables(PrefixTableSizes(prefix_table_lit \o prefix_table_dist)),
                      LAMBDA prefix_tables :
                 <<VarBitNew(5, Len(prefix_table_lit) - 257),
                   VarBitNew(5, Len(prefix_table_dist) - 1),
                   [size |-> 4, value |-> prefix_tables.hclen]>>
                 \o prefix_tables.prefix_table
                 \o prefix_tables.content))
        \o ItemsBits(b.block, 1, Len(b.block), prefix_table_lit, prefix_table_dist)
        \o <<VarBitReversed(Unwrap(prefix_table_lit[257]))>>))

\* DeflateIrBlock::encode
BlockEncode(b, output, use_static) == WriterPushSlice(output, BlockBits(b, use_static), 1)

\* slice::chunks: how many chunks a slice of len items has
ChunkCount(len, size) == (len + size - 1) \div size

\* slice::chunks
Chunks(seq, size) ==
    [c \in 1..ChunkCount(Len(seq), size) |->
        SubSeq(seq, (c - 1) * size + 1, Min(c * size, Len(seq)))] \o <<>>

\* blocks with no block marked
MarkNone(blocks) == blocks

\* deflate, lines 56-57: blocks.last_mut().unwrap().is_final = true
MarkLast(blocks) ==
    [c \in 1..Len(blocks) |->
        IF c = Len(blocks) THEN [blocks[c] EXCEPT !.is_final = TRUE] ELSE blocks[c]] \o <<>>

\* deflate, lines 52-57: the blocks, the last one final
DeflateBlocks(buff) ==
    LET chunks == Chunks(buff, MIN_BLOCK_SIZE) IN
    MarkLast([c \in 1..Len(chunks) |-> IrBlockNew(chunks[c])] \o <<>>)

\* the blocks of lines 52-57 were the items cut every block_size items
DeflateBlocksOfSize(buff, block_size) ==
    LET chunks == Chunks(buff, block_size) IN
    MarkLast([c \in 1..Len(chunks) |-> IrBlockNew(chunks[c])] \o <<>>)

\* a zlib header with FCHECK left at zero
ZlibHeaderNoCheck(level, ws) ==
    <<BitOr((ws * 16) % 256, 8), (ZlibFlevel(level) * 64) % 256>>

\* deflate, lines 60-67: the zlib header <<cmf, flg>>
ZlibHeader(level, ws) ==
    LET cmf == BitOr(((ws + 8 - 8) * 16) % 256, 8)
        flg == (ZlibFlevel(level) * 64) % 256
        fcheck == 31 - ((cmf * 256 + flg) % 31)
    IN  <<cmf, BitOr(flg, fcheck % 256)>>

\* deflate, lines 70-81: whether the block is written with the static
\* tables; small says whether estimated_size is below THRESHOLD_STATIC
DeflateUseStatic(b, level, small) ==
    IF ~IsFastMethod(level) /\ small
    THEN LET ref_static == BlockEncode(b, WriterNew, TRUE)
             ref_dynamic == BlockEncode(b, WriterNew, FALSE)
         IN  WriterBitCount(ref_static) < WriterBitCount(ref_dynamic)
    ELSE FALSE

\* deflate, lines 69-84: one block written
DeflateBlock(output, b, level, small) ==
    BlockEncode(b, output, DeflateUseStatic(b, level, small))

RECURSIVE DeflateBlocksLoop(_, _, _, _, _)
DeflateBlocksLoop(output, blocks, k, level, small) ==
    IF k > Len(blocks) THEN output
    ELSE DeflateBlocksLoop(DeflateBlock(output, blocks[k], level, small[k]),
                           blocks, k + 1, level, small)

\* deflate, lines 59-92, from the blocks on: the bytes returned, and the bit
\* count of the output when the last block has been written; small[k] says
\* whether estimated_size of block k is below THRESHOLD_STATIC
DeflateWritten(input, blocks, level, is_zlib, small) ==
    LET ws == WindowSizePreferred(Len(input))
        w0 == IF is_zlib
              THEN LET h == ZlibHeader(level, ws) IN
                   WriterPush(WriterPush(WriterNew, VarBitWithByte(h[1])), VarBitWithByte(h[2]))
              ELSE WriterNew
        sum == Adler32Bytes(input)
    IN  With(DeflateBlocksLoop(w0, blocks, 1, level, small), LAMBDA w1 :
            [stream |-> WriterIntoBytes(
                            IF is_zlib
                            THEN WriterPushSlice(WriterSkipToNextByteBoundary(w1),
                                                 [k \in 1..4 |-> VarBitWithByte(sum[k])], 1)
                            ELSE w1),
             block_bits |-> WriterBitCount(w1)])

\* deflate, lines 52-92, from the items of encode_lcp on
DeflateItems(input, buff, level, is_zlib, small) ==
    DeflateWritten(input, DeflateBlocks(buff), level, is_zlib, small)

\* deflate, line 70, for every block: the values block.estimated_size() <
\* THRESHOLD_STATIC may take, block by block
BlocksSmall(blocks) ==
    {small \in [1..Len(blocks) -> BOOLEAN] :
        \A k \in 1..Len(blocks) : small[k] \in EstimatedSizeBelowThreshold(blocks[k])}

\* i32::MAX
I32_MAX == 2147483647

\* a check on the input that lets every length through
EncodeInputCheckNone(input) == "Ok"

\* LZSS::encode_fast and LZSS::encode_lcp, their first test:
\* if input.is_empty() || input.len() > i32::MAX as usize
EncodeInputCheck(input) ==
    IF input = <<>> \/ Len(input) > I32_MAX THEN "InvalidInput" ELSE "Ok"

\* LZSS::encode_lcp, what it returns: with search_attempts = 1 it hands over
\* to encode_fast, which makes the same test
EncodeLcpResult(input, config) ==
    IF config.search_attempts = 1 THEN EncodeInputCheck(input)
    ELSE EncodeInputCheck(input)

\* is_zlib of the options deflate works with: deflate takes
\* options.unwrap_or_default(), deflate_zlib sets zlib on them first;
\* options is None or Some(is_zlib)
DeflateIsZlib(api, options) ==
    IF api = "deflate_zlib" THEN TRUE
    ELSE IF options = None THEN FALSE ELSE options[1]

\* deflate, lines 40-50: the items handed to the blocks
DeflateTokens(input, level) ==
    LET lzss == EncodeLcp(input, LzssConfig(level, WindowSizePreferred(Len(input)))) IN
    [k \in 1..Len(lzss) |-> LzirFromLzss(lzss[k])] \o <<>>

-----------------------------------------------------------------------------
(* entropy/prefix/decode.rs, deflate/inflate.rs: the decoder. Results are *)
(* "Ok" or the name of the DecodeError.                                   *)

RECURSIVE ReadMetaLengths(_, _, _, _)
\* decode_prefix_table_deflate, lines 288-297: [r, ok, lengths]
ReadMetaLengths(r, k, num_prefixes, lengths) ==
    IF k > num_prefixes \/ k > 19 THEN [r |-> r, ok |-> TRUE, lengths |-> lengths]
    ELSE With(ReadBits(r, 3), LAMBDA b :
         IF ~IsSome(b.val) THEN [r |-> b.r, ok |-> FALSE, lengths |-> lengths]
         ELSE ReadMetaLengths(b.r, k + 1, num_prefixes,
                              [lengths EXCEPT ![ORDER_DEFLATE[k] + 1] = Unwrap(b.val)]))

\* n copies of v
Repeat(v, n) == [k \in 1..n |-> v] \o <<>>

RECURSIVE ReadCodeLengths(_, _, _, _, _)
\* decode_prefix_table_deflate, lines 301-338: [r, res, output]
ReadCodeLengths(dec, r, output, output_size, prev) ==
    IF Len(output) >= output_size THEN [r |-> r, res |-> "Ok", output |-> output]
    ELSE
        With(Decode(dec, r), LAMBDA d :
        LET decoded == d.val % 256
            bits == IF decoded = 16 THEN 2 ELSE IF decoded = 17 THEN 3 ELSE 7
        IN  IF d.res # "Ok" THEN [r |-> d.r, res |-> d.res, output |-> output]
            ELSE IF decoded <= 15
            THEN ReadCodeLengths(dec, d.r, Append(output, decoded), output_size, decoded)
            ELSE IF decoded > 18 THEN [r |-> d.r, res |-> "InvalidData", output |-> output]
            ELSE With(ReadBits(d.r, bits), LAMBDA e :
                 IF ~IsSome(e.val) THEN [r |-> e.r, res |-> "InvalidData", output |-> output]
                 ELSE IF decoded = 16
                 THEN ReadCodeLengths(dec, e.r, output \o Repeat(prev, 3 + Unwrap(e.val)),
                                      output_size, prev)
                 ELSE IF decoded = 17
                 THEN ReadCodeLengths(dec, e.r, output \o Repeat(0, 3 + Unwrap(e.val)),
                                      output_size, 0)
                 ELSE ReadCodeLengths(dec, e.r, output \o Repeat(0, 11 + Unwrap(e.val)),
                                      output_size, 0)))

\* CanonicalPrefixDecoder::decode_prefix_table_deflate: [r, res, output]
DecodePrefixTableDeflate(reader, output_size) ==
    With(ReadBits(reader, 4), LAMBDA n :
    IF ~IsSome(n.val) THEN [r |-> n.r, res |-> "InvalidData", output |-> <<>>]
    ELSE With(ReadMetaLengths(n.r, 1, 4 + Unwrap(n.val), Repeat(0, 19)), LAMBDA m :
    IF ~m.ok THEN [r |-> m.r, res |-> "InvalidData", output |-> <<>>]
    ELSE With(WithLengths(m.lengths, FALSE, FALSE), LAMBDA dec :  \* no lookup_table2: line 105 is not run
    IF ~dec.ok THEN [r |-> m.r, res |-> "InvalidData", output |-> <<>>]
    ELSE ReadCodeLengths(dec.dec, m.r, <<>>, output_size, 0))))

\* _decode_block, lines 138-148: a length/distance pair
DecodeLengthPair(decoder_dist, reader, output, lit) ==
    With(VarUintDecodeValue(VARIABLE_LENGTH_BASE_TABLE, lit, reader), LAMBDA len :
        IF ~IsSome(len.val) THEN [r |-> len.r, res |-> "InvalidData", o |-> output]
        ELSE With(Decode(decoder_dist, len.r), LAMBDA code :
            IF code.res # "Ok" THEN [r |-> code.r, res |-> code.res, o |-> output]
            ELSE With(VarUintDecodeValue(VARIABLE_DISTANCE_BASE_TABLE, code.val % 256, code.r),
                      LAMBDA distance :
                IF ~IsSome(distance.val)
                THEN [r |-> distance.r, res |-> "InvalidData", o |-> output]
                ELSE With(LzCopyLz(output, Unwrap(distance.val), Unwrap(len.val)),
                          LAMBDA copied :
                    IF ~copied.ok THEN [r |-> distance.r, res |-> "InvalidData", o |-> output]
                    ELSE [r |-> distance.r, res |-> "Ok", o |-> copied.o]))))

RECURSIVE DecodeBlockLoop2(_, _, _, _)
\* _decode_block, lines 127-155: the loop over decode2
DecodeBlockLoop2(decoder_lit, decoder_dist, reader, output) ==
    IF LzIsEof(output) THEN [r |-> reader, res |-> "Ok", o |-> output]
    ELSE
        With(Decode2(decoder_lit, reader), LAMBDA d :
        IF d.res # "Ok" THEN [r |-> d.r, res |-> d.res, o |-> output]
        ELSE IF d.lit.kind = "Single"
        THEN DecodeBlockLoop2(decoder_lit, decoder_dist, d.r,
                              LzPushLiteral(output, d.lit.a).o)
        ELSE IF d.lit.kind = "Double"
        THEN DecodeBlockLoop2(decoder_lit, decoder_dist, d.r,
                              LzPushLiteral(LzPushLiteral(output, d.lit.a).o, d.lit.b).o)
        ELSE IF d.lit.kind = "Length"
        THEN With(DecodeLengthPair(decoder_dist, d.r, output, d.lit.a), LAMBDA p :
             IF p.res # "Ok" THEN p
             ELSE DecodeBlockLoop2(decoder_lit, decoder_dist, p.r, p.o))
        ELSE [r |-> d.r, res |-> "Ok", o |-> output])

RECURSIVE DecodeBlockLoop1(_, _, _)
\* _decode_block, lines 158-167: the loop over decode
DecodeBlockLoop1(decoder_lit, reader, output) ==
    IF LzIsEof(output) THEN [r |-> reader, res |-> "Ok", o |-> output]
    ELSE
        With(Decode(decoder_lit, reader), LAMBDA d :
        IF d.res # "Ok" THEN [r |-> d.r, res |-> d.res, o |-> output]
        ELSE IF d.val < 256
        THEN DecodeBlockLoop1(decoder_lit, d.r, LzPushLiteral(output, d.val).o)
        ELSE IF d.val = 256 THEN [r |-> d.r, res |-> "Ok", o |-> output]
        ELSE DecodeBlockLoop1(decoder_lit, d.r, output))

\* _decode_block: [r, res, o]; res is "panic" where with_lengths panics, which
\* a build with overflow checks does on a literal/length table whose codes
\* are all longer than 12 bits
DecodeBlock(reader, output, lengths_lit, lengths_dist, overflow_checks) ==
    LET bad == [r |-> reader, res |-> "InvalidData", o |-> output]
        panicked == [r |-> reader, res |-> "panic", o |-> output]
    IN
    IF Len(lengths_dist) >= 2
    THEN With(WithLengths(lengths_lit, TRUE, overflow_checks), LAMBDA decoder_lit :
         IF IsPrefixPanic(decoder_lit) THEN panicked
         ELSE IF ~decoder_lit.ok THEN bad
         ELSE With(WithLengths(lengths_dist, FALSE, overflow_checks), LAMBDA decoder_dist :
              IF IsPrefixPanic(decoder_dist) THEN panicked
              ELSE IF ~decoder_dist.ok THEN bad
              ELSE DecodeBlockLoop2(decoder_lit.dec, decoder_dist.dec, reader, output)))
    ELSE With(WithLengths(lengths_lit, FALSE, overflow_checks), LAMBDA decoder_lit :
         IF IsPrefixPanic(decoder_lit) THEN panicked
         ELSE IF ~decoder_lit.ok THEN bad
         ELSE DecodeBlockLoop1(decoder_lit.dec, reader, output))

\* inflate_in_place, lines 50-66: a stored block
InflateStored(reader, output) ==
    With(ReadNextBytes(reader, 2), LAMBDA len :
    IF ~IsSome(len.val) THEN [r |-> len.r, res |-> "UnexpectedEof", o |-> output]
    ELSE With(ReadNextBytes(len.r, 2), LAMBDA nlen :
    IF ~IsSome(nlen.val) THEN [r |-> nlen.r, res |-> "UnexpectedEof", o |-> output]
    ELSE LET len16 == Unwrap(len.val)[1] + 256 * Unwrap(len.val)[2]
             nlen16 == Unwrap(nlen.val)[1] + 256 * Unwrap(nlen.val)[2]
         IN
    IF len16 # 65535 - nlen16 THEN [r |-> nlen.r, res |-> "InvalidData", o |-> output]
    ELSE With(ReadNextBytesSlice(nlen.r, len16), LAMBDA slice :
    IF ~IsSome(slice.val) THEN [r |-> slice.r, res |-> "UnexpectedEof", o |-> output]
    ELSE With(LzExtendFromSlice(output, Unwrap(slice.val)), LAMBDA ext :
    IF ~ext.ok THEN [r |-> slice.r, res |-> "InvalidData", o |-> output]
    ELSE [r |-> slice.r, res |-> "Ok", o |-> ext.o]))))

\* inflate_in_place, lines 85-103: a dynamic block
InflateDynamic(reader, output, overflow_checks) ==
    With(ReadBits(reader, 5), LAMBDA hl :
    IF ~IsSome(hl.val) THEN [r |-> hl.r, res |-> "UnexpectedEof", o |-> output]
    ELSE With(ReadBits(hl.r, 5), LAMBDA hd :
    IF ~IsSome(hd.val) THEN [r |-> hd.r, res |-> "UnexpectedEof", o |-> output]
    ELSE LET hlit == 257 + Unwrap(hl.val)
             hdist == 1 + Unwrap(hd.val)
         IN  With(DecodePrefixTableDeflate(hd.r, hlit + hdist), LAMBDA t :
             IF t.res # "Ok" THEN [r |-> t.r, res |-> t.res, o |-> output]
             ELSE DecodeBlock(t.r, output, SubSeq(t.output, 1, hlit),
                              SubSeq(t.output, hlit + 1, Len(t.output)),
                              overflow_checks))))

RECURSIVE InflateBlocks(_, _, _)
\* inflate_in_place, lines 44-114: the loop over the blocks
InflateBlocks(reader, output, overflow_checks) ==
    IF LzIsEof(output) THEN [r |-> reader, res |-> "Ok", o |-> output]
    ELSE
        With(ReadBool(reader), LAMBDA bfinal :
        IF ~IsSome(bfinal.val) THEN [r |-> bfinal.r, res |-> "UnexpectedEof", o |-> output]
        ELSE With(ReadBits(bfinal.r, 2), LAMBDA btype :
        IF ~IsSome(btype.val) THEN [r |-> btype.r, res |-> "UnexpectedEof", o |-> output]
        ELSE With(CASE Unwrap(btype.val) = 0 -> InflateStored(btype.r, output)
                    [] Unwrap(btype.val) = 1 ->
                         DecodeBlock(btype.r, output, FixedLengthsLit, FixedLengthsDist,
                                     overflow_checks)
                    [] Unwrap(btype.val) = 2 ->
                         InflateDynamic(btype.r, output, overflow_checks)
                    [] OTHER -> [r |-> btype.r, res |-> "InvalidData", o |-> output],
                  LAMBDA b :
             IF b.res # "Ok" THEN b
             ELSE IF Unwrap(bfinal.val) = 1 THEN b
             ELSE InflateBlocks(b.r, b.o, overflow_checks))))

\* framing detection that takes every stream for a zlib stream
InflateHeaderZlibOnly(input) ==
    IF Len(input) < 2 THEN [res |-> "UnexpectedEof", skip |-> 0]
    ELSE IF BitAnd(input[2], 32) # 0 THEN [res |-> "UnsupportedFormat", skip |-> 0]
    ELSE IF (input[1] * 256 + input[2]) % 31 # 0 THEN [res |-> "InvalidData", skip |-> 0]
    ELSE [res |-> "Ok", skip |-> 16]

\* framing detection that tests the check before FDICT
InflateHeaderCheckFirst(input) ==
    IF Len(input) = 0 THEN [res |-> "UnexpectedEof", skip |-> 0]
    ELSE IF input[1] % 16 = 8
    THEN IF Len(input) < 2 THEN [res |-> "UnexpectedEof", skip |-> 0]
         ELSE IF (input[1] * 256 + input[2]) % 31 # 0
         THEN [res |-> "InvalidData", skip |-> 0]
         ELSE IF BitAnd(input[2], 32) # 0 THEN [res |-> "UnsupportedFormat", skip |-> 0]
         ELSE [res |-> "Ok", skip |-> 16]
    ELSE [res |-> "Ok", skip |-> 0]

\* inflate_in_place, lines 21-37: the framing detection on the first bytes:
\* [res, skip] with skip the bits to pass over (0: a raw stream)
InflateHeader(input) ==
    IF Len(input) = 0 THEN [res |-> "UnexpectedEof", skip |-> 0]
    ELSE IF input[1] % 16 = 8
    THEN IF Len(input) < 2 THEN [res |-> "UnexpectedEof", skip |-> 0]
         ELSE IF BitAnd(input[2], 32) # 0 THEN [res |-> "UnsupportedFormat", skip |-> 0]
         ELSE IF (input[1] * 256 + input[2]) % 31 # 0
         THEN [res |-> "InvalidData", skip |-> 0]
         ELSE [res |-> "Ok", skip |-> 16]
    ELSE [res |-> "Ok", skip |-> 0]

\* inflate_in_place: [res, o]; overflow_checks is the build's setting (true
\* in the debug profile), and res is "panic" where the call does not return
InflateInPlace(input, buffer, overflow_checks) ==
    With(InflateHeader(input), LAMBDA h :
    IF h.res # "Ok" THEN [res |-> h.res, o |-> LzNew(buffer)]
    ELSE With(InflateBlocks(IF h.skip > 0 THEN Advance(ReaderNew(input), h.skip).r
                            ELSE ReaderNew(input),
                            LzNew(buffer), overflow_checks),
              LAMBDA b : [res |-> b.res, o |-> b.o]))

\* inflate: [res, o]; the vector starts as decode_size zero bytes, and is
\* returned only with Ok
Inflate(input, decode_size, overflow_checks) ==
    InflateInPlace(input, Repeat(0, decode_size), overflow_checks)

-----------------------------------------------------------------------------
(* Values of the variable groups a specification leaves alone *)

RdIdle == ReaderNew(<<>>)

RdRetIdle == [op |-> "idle", bits |-> 0, val |-> None]

PfIdle == [phase |-> "idle"]

LzIdle == [op |-> "idle"]

CxIdle == [phase |-> "idle"]

FrIdle == [phase |-> "idle"]

TkIdle == [phase |-> "idle"]

SxIdle == [phase |-> "idle"]

WrIdle == [phase |-> "idle"]

VbIdle == [phase |-> "idle"]

InfIdle == [phase |-> "idle"]

-----------------------------------------------------------------------------
(* Bit reader under test: any interleaving of the reader's operations over *)
(* a byte slice.                                                           *)

\* longest slice handed to the reader under test
RdMaxLen == 8

\* number of start offsets into the byte pattern
RdStarts == 1

\* bytes the slices are cut from (cyclic)
RdPattern == <<165, 60, 255, 0, 129, 126, 90, 195, 15, 240, 1, 128, 85>>

RdByte(i) == RdPattern[((i - 1) % Len(RdPattern)) + 1]

RdSources == { [i \in 1..n |-> RdByte(a + i - 1)] : a \in 1..RdStarts, n \in 0..RdMaxLen }

\* widths the operations are called with
RdWidths == {1, 3, 8, 13, 24}

RdInit ==
    /\ \E s \in RdSources : rd = ReaderNew(s)
    /\ rd_ret = [op |-> "new", bits |-> 0, val |-> None]
    /\ pf = PfIdle
    /\ lz = LzIdle
    /\ cx = CxIdle
    /\ fr = FrIdle
    /\ tk = TkIdle /\ sx = SxIdle /\ wr = WrIdle /\ vb = VbIdle /\ inf = InfIdle

RdReadBits ==
    \E k \in RdWidths :
        LET x == ReadBits(rd, k) IN
        /\ rd' = x.r
        /\ rd_ret' = [op |-> "read_bits", bits |-> k, val |-> x.val]

RdReadBool ==
    LET x == ReadBool(rd) IN
    /\ rd' = x.r
    /\ rd_ret' = [op |-> "read_bool", bits |-> 1, val |-> x.val]

RdPeekBits ==
    \E k \in RdWidths :
        LET x == PeekBits(rd, k) IN
        /\ rd' = x.r
        /\ rd_ret' = [op |-> "peek_bits", bits |-> k, val |-> x.val]

RdAdvance ==
    \E k \in RdWidths :
        LET x == Advance(rd, k) IN
        /\ rd' = x.r
        /\ rd_ret' = [op |-> "advance", bits |-> k, val |-> x.val]

RdNextBits ==
    (RdReadBits \/ RdReadBool \/ RdPeekBits \/ RdAdvance) /\ UNCHANGED <<pf, lz, cx, fr, tk, sx, wr, vb, inf>>

\* read_bits, read_bool, peek_bits and advance in any order
SpecBits == RdInit /\ [][RdNextBits]_vars

RECURSIVE BytesToBits(_, _)
\* the bits of bytes[from..], least significant bit of each byte first
BytesToBits(bytes, from) ==
    IF from > Len(bytes) THEN <<>>
    ELSE [i \in 1..8 |-> BitOf(bytes[from], i - 1)] \o BytesToBits(bytes, from + 1)

\* the bits a reader has still to deliver: the buffered ones, then the slice
RdRemaining(r) == SubSeq(r.acc, 1, r.left) \o BytesToBits(r.src, r.pos + 1)

\* C8: from every reader state reached by read_bits, read_bool, peek_bits and
\* advance, and for every width k in 1..=24, peek_bits(k) then advance(k)
\* gives the value read_bits(k) gives and leaves the same bits unread; the
\* accumulator holds no set bit at or above `left`, so none reaches a result.
PeekAdvanceIsRead ==
    /\ \A k \in 1..BitSizeMax :
        LET p == PeekBits(rd, k)
            a == Advance(p.r, k)
            x == ReadBits(rd, k)
        IN  /\ p.val = x.val
            /\ IsSome(a.val) = IsSome(x.val)
            /\ RdRemaining(a.r) = RdRemaining(x.r)
            /\ IsSome(x.val) =>
                 /\ Len(RdRemaining(rd)) >= k
                 /\ \A i \in 1..k : BitOf(Unwrap(x.val), i - 1) = RdRemaining(rd)[i]
                 /\ RdRemaining(x.r) = SubSeq(RdRemaining(rd), k + 1, Len(RdRemaining(rd)))
    /\ \A i \in (rd.left + 1)..AccBits : rd.acc[i] = 0

\* a peek has prefetched whole bytes and the next width needs a refill
PeekAdvanceIsReadWitness ==
    /\ rd_ret.op = "advance"
    /\ IsSome(rd_ret.val)
    /\ rd.left > 0
    /\ rd.left < BitSizeMax
    /\ rd.pos < Len(rd.src)
    /\ rd.pos > 0

-----------------------------------------------------------------------------
(* Prefix coder under test: a length array, the decoders with_lengths builds
   from it, symbols written with the encoder's codes, and the two decode
   paths run side by side over the same bytes *)

\* longest code length in the enumerated length arrays
PfMaxBits == 2
\* most symbols written to one stream
PfMaxSyms == 2
\* symbols carrying a length in the enumerated arrays
PfSupport == <<0, 255, 256, 258>>
\* symbols the encode step may write
PfProbe == {0, 1, 11, 143, 144, 255, 256, 257, 258, 279, 280, 287}
\* bytes following the written symbols
PfTails == {<<>>, <<165, 60>>}
\* streams not produced by the encoder
PfRawSources == {<<>>, <<0>>, <<255, 255>>, <<27, 228, 141>>}

PfArray(f) ==
    [i \in 1..(PfSupport[Len(PfSupport)] + 1) |->
        LET hits == {k \in 1..Len(PfSupport) : PfSupport[k] = i - 1} IN
        IF hits = {} THEN 0 ELSE f[CHOOSE k \in hits : TRUE]] \o <<>>

\* a complete code with two codes longer than the lookup table is wide
PfLongLengths ==
    [i \in 1..258 |-> IF i <= 12 THEN i ELSE IF i >= 257 THEN 13 ELSE 0] \o <<>>

\* two literals with one-bit codes
PfTwoLiterals == <<1, 1>>

\* two literals whose codes are both longer than the lookup table is wide
PfAllLongLengths == <<13, 13>>

PfLengths ==
    {PfArray(f) : f \in [1..Len(PfSupport) -> 0..PfMaxBits]}
    \cup {FixedLengthsLit, PfLongLengths, PfAllLongLengths, PfTwoLiterals}

\* the (size, symbol) order of a length array as the encoder's frequency
\* order would list it, and the number of codes of each length
LengthsAsTable(A) ==
    LET syms == SortedSyms(A) IN
    [k \in 1..Len(syms) |-> [sym |-> syms[k], freq |-> 0]] \o <<>>

LengthsHistogram(A) ==
    [b \in 1..(MaxCodeLen + 1) |-> IF b = 1 THEN 0 ELSE Len(SymsOfLen(A, b - 1))] \o <<>>

\* the codes generate_prefix_table (lines 90-117) hands out for the lengths A
EncoderCodes(A) ==
    AssignPrefixCodes(LengthsAsTable(A), PrefixCodes(LengthsHistogram(A), 0, 0, 0))

\* the encoder's code of a symbol, as the block writer emits it (reversed)
EncoderCodeOf(table, sym) ==
    LET k == CHOOSE j \in 1..Len(table) : table[j].sym = sym IN
    VarBitReversed([size |-> table[k].size, value |-> table[k].value])

PfInit ==
    /\ \E A \in PfLengths :
         pf = [phase |-> "new", A |-> A, dec |-> <<>>, dec2 |-> <<>>, codes |-> <<>>,
               w |-> WriterNew, syms |-> <<>>, r |-> RdIdle, r2 |-> RdIdle, rl |-> RdIdle,
               out |-> <<>>, out2 |-> <<>>, outl |-> <<>>,
               st |-> "run", st2 |-> "run", stl |-> "run", last2 |-> "none"]
    /\ rd = RdIdle
    /\ rd_ret = RdRetIdle
    /\ lz = LzIdle
    /\ cx = CxIdle
    /\ fr = FrIdle
    /\ tk = TkIdle /\ sx = SxIdle /\ wr = WrIdle /\ vb = VbIdle /\ inf = InfIdle

\* with_lengths(A, false) and with_lengths(A, true), in a build with or
\* without overflow checks; generate the codes
PfBuild ==
    /\ pf.phase = "new"
    /\ \E overflow_checks \in BOOLEAN :
         With(WithLengths(pf.A, FALSE, overflow_checks), LAMBDA b :
         With(WithLengths(pf.A, TRUE, overflow_checks), LAMBDA b2 :
         IF IsPrefixPanic(b) \/ IsPrefixPanic(b2)
         THEN pf' = [pf EXCEPT !.phase = "panicked"]
         ELSE IF b.ok /\ b2.ok
         THEN pf' = [pf EXCEPT !.phase = "built", !.dec = b.dec, !.dec2 = b2.dec,
                               !.codes = EncoderCodes(pf.A)]
         ELSE pf' = [pf EXCEPT !.phase = "rejected"]))

\* the encoder writes one symbol
PfEncode ==
    /\ pf.phase = "built"
    /\ Len(pf.syms) < PfMaxSyms
    /\ \E s \in PfProbe :
         /\ s < Len(pf.A)
         /\ pf.A[s + 1] > 0
         /\ pf' = [pf EXCEPT !.w = WriterPush(pf.w, EncoderCodeOf(pf.codes, s)),
                             !.syms = Append(pf.syms, s)]

\* into_bytes, and a reader for each decode path
PfFinish ==
    /\ pf.phase = "built"
    /\ Len(pf.syms) > 0
    /\ \E tail \in PfTails :
         LET bytes == WriterIntoBytes(pf.w) \o tail IN
         pf' = [pf EXCEPT !.phase = "dec", !.r = ReaderNew(bytes), !.r2 = ReaderNew(bytes),
                          !.rl = ReaderNew(bytes)]

\* the decoders are given bytes the encoder did not write
PfRaw ==
    /\ pf.phase = "built"
    /\ Len(pf.syms) = 0
    /\ \E src \in PfRawSources :
         pf' = [pf EXCEPT !.phase = "dec", !.r = ReaderNew(src), !.r2 = ReaderNew(src),
                          !.rl = ReaderNew(src)]

\* the symbols a decode2 result stands for
LitLenSymbols(lit) ==
    CASE lit.kind = "Single" -> <<lit.a>>
      [] lit.kind = "Double" -> <<lit.a, lit.b>>
      [] lit.kind = "Length" -> <<257 + lit.a>>
      [] lit.kind = "EndOfBlock" -> <<256>>

\* one decode2 call on the literal/length decoder
PfDecode2 ==
    /\ pf.phase = "dec" /\ pf.st = "run" /\ pf.st2 = "run"
    /\ Len(pf.out2) = Len(pf.out)
    /\ Len(pf.outl) >= Len(pf.out2) \/ pf.stl # "run"
    /\ LET d == Decode2(pf.dec2, pf.r2) IN
       pf' = [pf EXCEPT !.r2 = d.r,
                        !.last2 = IF d.res = "Ok" THEN d.lit.kind ELSE d.res,
                        !.st2 = IF d.res = "Ok" THEN "run" ELSE d.res,
                        !.out2 = IF d.res = "Ok" THEN pf.out2 \o LitLenSymbols(d.lit)
                                 ELSE pf.out2]

\* one decode call on the standard decoder
PfDecode ==
    /\ pf.phase = "dec" /\ pf.st = "run"
    /\ Len(pf.out) < Len(pf.out2) \/ pf.st2 # "run"
    /\ LET d == Decode(pf.dec, pf.r) IN
       pf' = [pf EXCEPT !.r = d.r,
                        !.st = IF d.res = "Ok" THEN "run" ELSE d.res,
                        !.out = IF d.res = "Ok" THEN Append(pf.out, d.val) ELSE pf.out]

\* one decode call on the literal/length decoder, the decoder decode2 runs on
PfDecodeLit ==
    /\ pf.phase = "dec" /\ pf.stl = "run"
    /\ Len(pf.outl) < Len(pf.out2) \/ pf.st2 # "run"
    /\ LET d == Decode(pf.dec2, pf.rl) IN
       pf' = [pf EXCEPT !.rl = d.r,
                        !.stl = IF d.res = "Ok" THEN "run" ELSE d.res,
                        !.outl = IF d.res = "Ok" THEN Append(pf.outl, d.val) ELSE pf.outl]

PfNext ==
    (PfBuild \/ PfEncode \/ PfFinish \/ PfRaw \/ PfDecode2 \/ PfDecode \/ PfDecodeLit)
    /\ UNCHANGED <<rd, rd_ret, lz, cx, fr, tk, sx, wr, vb, inf>>

SpecPrefix == PfInit /\ [][PfNext]_vars

\* Kraft sum of a length array, scaled by 2^MaxCodeLen
KraftSum(A) ==
    SeqSum([b \in 1..MaxCodeLen |-> Len(SymsOfLen(A, b)) * Pow2(MaxCodeLen - b)], MaxCodeLen)

\* a length array a canonical code exists for
Compatible(A) ==
    /\ \A i \in 1..Len(A) : A[i] <= MaxCodeLen
    /\ Cardinality({i \in 1..Len(A) : A[i] > 0}) >= 2
    /\ KraftSum(A) <= Pow2(MaxCodeLen)

\* the bytes holding one reversed code followed by a tail
PfOneCode(c, tail) ==
    WriterIntoBytes(WriterPush(WriterNew, VarBitReversed(c))) \o tail

\* C9: for a length array compatible with a canonical code, with_lengths
\* builds a decoder; encoder and decoder assign the same canonical codes; the
\* decoder reads the reversed code of every symbol back as that symbol,
\* taking exactly its length in bits, through the lookup table and through
\* the tree; and a stream of written symbols decodes to those symbols.
DecoderReadsEncoderCodes ==
    (pf.phase \in {"built", "rejected", "panicked", "dec"} /\ Compatible(pf.A)) =>
        /\ pf.phase \notin {"rejected", "panicked"}
        /\ pf.codes = pf.dec.prefix_table
        /\ \A k \in 1..Len(pf.codes) : pf.codes[k].size = pf.A[pf.codes[k].sym + 1]
        /\ (pf.phase = "built" /\ pf.syms = <<>>) =>
             \A k \in 1..Len(pf.codes) : \A tail \in PfTails :
                LET bytes == PfOneCode(pf.codes[k], tail)
                    d == Decode(pf.dec, ReaderNew(bytes))
                    ds == DecodeSlow(pf.dec, ReaderNew(bytes))
                IN  /\ d.res = "Ok" /\ d.val = pf.codes[k].sym
                    /\ Len(RdRemaining(d.r)) = 8 * Len(bytes) - pf.codes[k].size
                    /\ ds.res = "Ok" /\ ds.val = pf.codes[k].sym
                    /\ Len(RdRemaining(ds.r)) = 8 * Len(bytes) - pf.codes[k].size
        /\ (pf.phase = "dec" /\ Len(pf.syms) > 0) =>
             /\ \A i \in 1..Min(Len(pf.out), Len(pf.syms)) : pf.out[i] = pf.syms[i]
             /\ pf.st # "run" => Len(pf.out) >= Len(pf.syms)
             /\ (pf.st = "run" /\ Len(pf.out) <= Len(pf.syms)) =>
                  Len(RdRemaining(pf.r))
                    = 8 * Len(pf.r.src)
                      - SeqSum([i \in 1..Len(pf.out) |-> pf.A[pf.out[i] + 1]], Len(pf.out))

\* with_lengths(A, true) has panicked on a compatible length array
WithLengthsPanicsOnLongCodes ==
    /\ pf.phase = "panicked"
    /\ Compatible(pf.A)
    /\ \A i \in 1..Len(pf.A) : pf.A[i] > MAX_LOOKUP_TABLE_BITS

\* with_lengths panics only when every code is longer than
\* MAX_LOOKUP_TABLE_BITS; in every other run on a compatible length array the
\* decoder is built and reads the encoder's codes
DecoderReadsEncoderCodesWhenBuilt ==
    /\ pf.phase = "panicked" => \A i \in 1..Len(pf.A) : pf.A[i] = 0 \/ pf.A[i] > MAX_LOOKUP_TABLE_BITS
    /\ pf.phase # "panicked" => DecoderReadsEncoderCodes

\* run over the same bytes, decode2 on the literal/length decoder and decode
\* on the standard decoder built from the same lengths yield the same symbols
\* (Single one literal, Double two, Length(c) 257 + c, EndOfBlock 256), have
\* consumed the same bits whenever they have yielded equally many symbols,
\* and fail at the same point with the same error
Decode2MatchesDecode ==
    pf.phase = "dec" =>
        /\ Len(pf.out) <= Len(pf.out2)
        /\ pf.out = SubSeq(pf.out2, 1, Len(pf.out))
        /\ Len(pf.out) = Len(pf.out2) /\ pf.st2 = "run" =>
             RdRemaining(pf.r) = RdRemaining(pf.r2)
        /\ pf.st # "run" =>
             /\ pf.st2 = pf.st
             /\ pf.out = pf.out2
             /\ RdRemaining(pf.r) = RdRemaining(pf.r2)

\* the standard path has caught up with a Double
Decode2MatchesDecodeWitness ==
    /\ pf.phase = "dec"
    /\ pf.last2 = "Double"
    /\ pf.st = "run"
    /\ Len(pf.out) = Len(pf.out2)
    /\ Len(RdRemaining(pf.r2)) < pf.dec2.peek_bits

\* C10: run over the same bytes on the same literal/length decoder, repeated
\* decode calls yield the symbols repeated decode2 calls yield (Single one
\* literal, Double two in order, Length(c) 257 + c, EndOfBlock 256), have
\* consumed the same bits whenever they have yielded equally many symbols,
\* and fail only where decode2 fails, with the same error.
Decode2MatchesDecodeOnDecoder ==
    pf.phase = "dec" =>
        /\ Len(pf.outl) <= Len(pf.out2)
        /\ pf.outl = SubSeq(pf.out2, 1, Len(pf.outl))
        /\ Len(pf.outl) = Len(pf.out2) /\ pf.st2 = "run" /\ pf.stl = "run" =>
             RdRemaining(pf.rl) = RdRemaining(pf.r2)
        /\ pf.stl # "run" =>
             /\ pf.st2 = pf.stl
             /\ pf.outl = pf.out2
             /\ RdRemaining(pf.rl) = RdRemaining(pf.r2)

\* decode has failed on the decoder decode2 has just read two literals with
DecodeFailsOnLiteralDecoder ==
    /\ pf.phase = "dec"
    /\ pf.last2 = "Double"
    /\ pf.st2 = "run"
    /\ pf.stl = "InvalidData"
    /\ pf.outl = <<>>
    /\ Len(pf.out2) = 2

-----------------------------------------------------------------------------
(* LzOutputBuffer under test: any sequence of push_literal,               *)
(* extend_from_slice and copy_lz on a zeroed buffer; lz records the       *)
(* operation, its arguments and the buffer before it                      *)

\* longest buffer handed to LzOutputBuffer::new
LzMaxCap == 5
\* largest distance and length copy_lz is called with
LzMaxDist == 4
LzMaxCopy == 5
\* bytes pushed, and slices appended
LzBytes == {1, 2}
LzSlices == {<<>>, <<3>>, <<1, 2>>, <<2, 1, 3>>}

LzInit ==
    /\ \E cap \in 0..LzMaxCap :
         lz = [op |-> "new", o |-> LzNew(Repeat(0, cap)), before |-> LzNew(Repeat(0, cap)),
               distance |-> 0, len |-> 0, ok |-> TRUE]
    /\ rd = RdIdle /\ rd_ret = RdRetIdle /\ pf = PfIdle /\ cx = CxIdle /\ fr = FrIdle
    /\ tk = TkIdle /\ sx = SxIdle /\ wr = WrIdle /\ vb = VbIdle /\ inf = InfIdle

LzDoPushLiteral ==
    \E b \in LzBytes :
        LET t == LzPushLiteral(lz.o, b) IN
        lz' = [op |-> "push_literal", o |-> t.o, before |-> lz.o,
               distance |-> 0, len |-> 1, ok |-> t.ok]

LzDoExtendFromSlice ==
    \E data \in LzSlices :
        LET t == LzExtendFromSlice(lz.o, data) IN
        lz' = [op |-> "extend_from_slice", o |-> t.o, before |-> lz.o,
               distance |-> 0, len |-> Len(data), ok |-> t.ok]

LzDoCopyLz ==
    \E distance \in 0..LzMaxDist, copy_len \in 0..LzMaxCopy :
        LET t == LzCopyLz(lz.o, distance, copy_len) IN
        lz' = [op |-> "copy_lz", o |-> t.o, before |-> lz.o,
               distance |-> distance, len |-> copy_len, ok |-> t.ok]

LzNext ==
    (LzDoPushLiteral \/ LzDoExtendFromSlice \/ LzDoCopyLz)
    /\ UNCHANGED <<rd, rd_ret, pf, cx, fr, tk, sx, wr, vb, inf>>

SpecLz == LzInit /\ [][LzNext]_vars

\* C6: a copy_lz of len bytes at distance dist with p bytes in the output,
\* 1 <= dist <= p and p + len within the buffer, succeeds, leaves
\* output[p + i] = output[p + i - dist] for every i in 0..len-1 in the buffer
\* after the copy (so bytes written by the copy feed its later bytes, on the
\* dist = 1 fill path as on the byte-by-byte path), moves the position to
\* p + len and changes no byte outside output[p .. p + len - 1]
CopyLzIsSequential ==
    (lz.op = "copy_lz"
     /\ lz.distance >= 1 /\ lz.distance <= lz.before.position
     /\ lz.before.position + lz.len <= Len(lz.before.buffer))
    => LET p == lz.before.position IN
       /\ lz.ok
       /\ lz.o.position = p + lz.len
       /\ Len(lz.o.buffer) = Len(lz.before.buffer)
       /\ \A i \in 0..(lz.len - 1) :
            lz.o.buffer[p + i + 1] = lz.o.buffer[p + i - lz.distance + 1]
       /\ \A j \in 1..Len(lz.o.buffer) :
            (j <= p \/ j > p + lz.len) => lz.o.buffer[j] = lz.before.buffer[j]

\* a copy that overlaps itself (2 <= dist < len) over two different bytes
CopyLzIsSequentialWitness ==
    /\ lz.op = "copy_lz" /\ lz.ok
    /\ lz.distance = 2 /\ lz.len >= 3
    /\ lz.before.position = 2
    /\ lz.before.position + lz.len <= Len(lz.before.buffer)
    /\ lz.before.buffer[1] # lz.before.buffer[2]
    /\ lz.o.buffer[5] = lz.before.buffer[1]

-----------------------------------------------------------------------------
(* The codec under test. A run starts from an input of deflate, from the  *)
(* items of one block handed to DeflateIrBlock::encode, or from a stream  *)
(* of one stored block; the stream is then given to inflate whole with    *)
(* the decoded size, cut short, or with a smaller declared size.          *)

\* longest input of deflate
CxMaxLen == 8
\* items handed to DeflateIrBlock::encode: up to CxMaxLits literals, then one
\* match of distance up to CxMaxDist
CxMaxLits == 2
CxMaxDist == 3
\* longest payload of a stored block
CxMaxStored == 3
\* most distance code lengths of a block built around one pair
CxMaxHdist == 2
\* items per block in the runs that cut the items into several blocks, in
\* place of MIN_BLOCK_SIZE
CxBlockSizes == {1, 2, 3}

\* the first n bytes of: a run of one byte, a period of three, no repeat
CxPattern(p, n) ==
    [i \in 1..n |-> CASE p = 1 -> 97
                      [] p = 2 -> 97 + ((i - 1) % 3)
                      [] OTHER -> 64 + i] \o <<>>

CxInputs == {CxPattern(p, n) : p \in 1..3, n \in {1, 2, 5, CxMaxLen}}

\* a run of CxRunLen bytes 255: the second sum of the checksum passes 65521
CxRunLen == 24
\* CxLongLen bytes 255 with a lower byte at every CxLongStep-th place: the
\* first sum passes 65521 as well, and no match is longer than CxLongStep
CxLongLen == 287
CxLongStep == 41
CxLongInput ==
    [i \in 1..CxLongLen |->
        IF i % CxLongStep = 0 THEN 255 - (i \div CxLongStep) ELSE 255] \o <<>>

\* lits literals, then a match
CxItems(lits, len, distance) ==
    [i \in 1..lits |-> 96 + i] \o <<LzirWithMatch(len, distance)>>

\* the code lengths of the code length alphabet of the built dynamic blocks:
\* symbols 1, 2 and 16 in two bits, 17 and 18 in three
InfMetaLengths ==
    [i \in 1..19 |-> IF i - 1 \in {1, 2, 16} THEN 2
                     ELSE IF i - 1 \in {17, 18} THEN 3 ELSE 0] \o <<>>

\* the bits of one symbol of the code length stream: its code, then the
\* extra bits of an escape
InfSymbolBits(table, s) ==
    <<EncoderCodeOf(table, s.sym)>>
        \o (CASE s.sym = 16 -> <<VarBitNew(2, s.extra)>>
              [] s.sym = 17 -> <<VarBitNew(3, s.extra)>>
              [] s.sym = 18 -> <<VarBitNew(7, s.extra)>>
              [] OTHER -> <<>>)

RECURSIVE InfSymbolsBits(_, _, _)
InfSymbolsBits(table, syms, k) ==
    IF k > Len(syms) THEN <<>>
    ELSE InfSymbolBits(table, syms[k]) \o InfSymbolsBits(table, syms, k + 1)

\* the literal/length code lengths of the blocks built around one pair: 'a'
\* in one bit, end-of-block and the length symbol 257 in two
CxPairLitLengths ==
    [i \in 1..258 |-> IF i - 1 = 97 THEN 1 ELSE IF i - 1 \in {256, 257} THEN 2 ELSE 0] \o <<>>

\* the symbols of their code length stream, [sym, extra]: 97 zeros, 1, 158
\* zeros, 2, 2, and hdist distance lengths of 1
CxPairCodeLengthSymbols(hdist) ==
    <<[sym |-> 18, extra |-> 86], [sym |-> 1, extra |-> 0],
      [sym |-> 18, extra |-> 127], [sym |-> 18, extra |-> 9],
      [sym |-> 2, extra |-> 0], [sym |-> 2, extra |-> 0]>>
        \o Repeat([sym |-> 1, extra |-> 0], hdist)

\* a final dynamic block with hlit 258 and hdist distance code lengths of one
\* bit, holding lits literals 'a', the pair (3, distance) and end-of-block:
\* the length symbol 257 has no extra bits, and the distance symbol
\* distance - 1 is written in one bit
CxPairStream(lits, hdist, distance) ==
    With(EncoderCodes(InfMetaLengths), LAMBDA meta :
    With(EncoderCodes(CxPairLitLengths), LAMBDA lit :
        WriterIntoBytes(WriterPushSlice(WriterNew,
            <<VarBitNew(1, 1), VarBitNew(2, 2), VarBitNew(5, 1), VarBitNew(5, hdist - 1),
              VarBitNew(4, 14)>>
            \o [k \in 1..18 |-> VarBitNew(3, InfMetaLengths[ORDER_DEFLATE[k] + 1])]
            \o InfSymbolsBits(meta, CxPairCodeLengthSymbols(hdist), 1)
            \o Repeat(EncoderCodeOf(lit, 97), lits)
            \o <<EncoderCodeOf(lit, 257), VarBitNew(1, distance - 1),
                 EncoderCodeOf(lit, 256)>>, 1))))

\* a final stored block: bfinal 1, btype 0, padding, LEN, NLEN, the payload
StoredStream(data) ==
    <<1, Len(data) % 256, Len(data) \div 256,
      (65535 - Len(data)) % 256, (65535 - Len(data)) \div 256>> \o data

\* size of the end-of-block code DeflateIrBlock::encode writes last
EobSize(b, use_static) ==
    IF use_static THEN Unwrap(StaticPrefixTableLit[257]).size
    ELSE Unwrap(MakePrefixTable(b.freq_count_lit, 15, 257)[257]).size

CxStart ==
    [phase |-> "input", kind |-> "deflate", input |-> <<>>, level |-> "Fast", zlib |-> FALSE,
     api |-> "deflate", options |-> None,
     items |-> <<>>, static |-> FALSE, lits |-> 0, len |-> 0, distance |-> 0, hdist |-> 0,
     block_size |-> MIN_BLOCK_SIZE,
     stream |-> <<>>, eob_bit |-> 0, n |-> 0,
     how |-> "none", src |-> <<>>, size |-> 0, res |-> "none", out |-> LzNew(<<>>)]

CxInit ==
    /\ \/ \E input \in CxInputs, level \in Levels, zlib \in BOOLEAN :
            cx = [CxStart EXCEPT !.input = input, !.level = level, !.zlib = zlib,
                                 !.n = Len(input)]
       \/ \E level \in Levels, zlib \in BOOLEAN :
            cx = [CxStart EXCEPT !.input = Repeat(255, CxRunLen), !.level = level,
                                 !.zlib = zlib, !.n = CxRunLen]
       \/ \E level \in {l \in Levels : IsFastMethod(l)}, zlib \in BOOLEAN :
            cx = [CxStart EXCEPT !.input = CxLongInput, !.level = level, !.zlib = zlib,
                                 !.n = CxLongLen]
       \/ \E level \in Levels, api \in {"deflate", "deflate_zlib"},
             options \in {None, Some(FALSE), Some(TRUE)} :
            cx = [CxStart EXCEPT !.level = level, !.api = api, !.options = options,
                                 !.zlib = DeflateIsZlib(api, options)]
       \/ \E lits \in 0..CxMaxLits, len \in {3, 4}, distance \in 1..CxMaxDist,
             static \in BOOLEAN :
            cx = [CxStart EXCEPT !.phase = "items", !.kind = "block",
                                 !.items = CxItems(lits, len, distance), !.static = static,
                                 !.lits = lits, !.len = len, !.distance = distance,
                                 !.n = lits + len]
       \/ \E lits \in 0..CxMaxLits, hdist \in 1..CxMaxHdist, distance \in 1..CxMaxHdist :
            /\ distance <= hdist
            /\ cx = [CxStart EXCEPT !.phase = "stream", !.kind = "pair",
                                    !.stream = CxPairStream(lits, hdist, distance),
                                    !.lits = lits, !.len = 3, !.distance = distance,
                                    !.hdist = hdist, !.n = lits + 3]
       \/ \E input \in CxInputs, level \in Levels, zlib \in BOOLEAN,
             block_size \in CxBlockSizes :
            cx = [CxStart EXCEPT !.kind = "scaled", !.input = input, !.level = level,
                                 !.zlib = zlib, !.n = Len(input),
                                 !.block_size = block_size]
       \/ \E n \in 1..CxMaxStored :
            cx = [CxStart EXCEPT !.phase = "stream", !.kind = "stored",
                                 !.stream = StoredStream(CxPattern(3, n)),
                                 !.eob_bit = 8 * (5 + n), !.n = n]
    /\ rd = RdIdle /\ rd_ret = RdRetIdle /\ pf = PfIdle /\ lz = LzIdle /\ fr = FrIdle
    /\ tk = TkIdle /\ sx = SxIdle /\ wr = WrIdle /\ vb = VbIdle /\ inf = InfIdle

\* cx after deflate, lines 35-50
CxTokenized(c) ==
    With(EncodeLcpResult(c.input, LzssConfig(c.level, WindowSizePreferred(Len(c.input)))),
         LAMBDA res :
        IF res # "Ok" THEN [c EXCEPT !.phase = "failed", !.res = res]
        ELSE [c EXCEPT !.phase = "items", !.items = DeflateTokens(c.input, c.level)])

\* deflate, lines 35-50: the `?` on encode_lcp returns its error at once
CxTokenize ==
    /\ cx.phase = "input"
    /\ cx' = CxTokenized(cx)

\* the last block of deflate, lines 52-57
CxLastBlock(items) == With(DeflateBlocks(items), LAMBDA blocks : blocks[Len(blocks)])

\* cx after deflate, lines 52-92; small[k] is what line 70 found for block k
CxEncoded(c, small) ==
    With(CxLastBlock(c.items), LAMBDA last :
    With(DeflateUseStatic(last, c.level, small[Len(small)]), LAMBDA static :
    With(DeflateItems(c.input, c.items, c.level, c.zlib, small), LAMBDA d :
        [c EXCEPT !.phase = "stream", !.stream = d.stream, !.static = static,
                  !.eob_bit = d.block_bits - EobSize(last, static)])))

\* deflate, lines 52-92
CxEncode ==
    /\ cx.phase = "items" /\ cx.kind = "deflate"
    /\ \E small \in BlocksSmall(DeflateBlocks(cx.items)) :
         cx' = CxEncoded(cx, small)

\* cx after lines 52-92 of deflate with the items cut every c.block_size items
CxEncodedScaled(c, small) ==
    With(DeflateBlocksOfSize(c.items, c.block_size), LAMBDA blocks :
    With(DeflateUseStatic(blocks[Len(blocks)], c.level, small[Len(small)]), LAMBDA static :
    With(DeflateWritten(c.input, blocks, c.level, c.zlib, small), LAMBDA d :
        [c EXCEPT !.phase = "stream", !.stream = d.stream, !.static = static,
                  !.eob_bit = d.block_bits - EobSize(blocks[Len(blocks)], static)])))

\* deflate, lines 52-92, with blocks of c.block_size items
CxEncodeScaled ==
    /\ cx.phase = "items" /\ cx.kind = "scaled"
    /\ \E small \in BlocksSmall(DeflateBlocksOfSize(cx.items, cx.block_size)) :
         cx' = CxEncodedScaled(cx, small)

\* cx after DeflateIrBlock::encode of its items as one final block
CxBlockEncoded(c) ==
    With([IrBlockNew(c.items) EXCEPT !.is_final = TRUE], LAMBDA b :
    With(BlockEncode(b, WriterNew, c.static), LAMBDA w :
        [c EXCEPT !.phase = "stream", !.stream = WriterIntoBytes(w),
                  !.eob_bit = WriterBitCount(w) - EobSize(b, c.static)]))

\* DeflateIrBlock::encode of one final block
CxEncodeBlock ==
    /\ cx.phase = "items" /\ cx.kind = "block"
    /\ cx' = CxBlockEncoded(cx)

\* cx after inflate_in_place of src into size zero bytes
CxRan(c, how, src, size, overflow_checks) ==
    With(InflateInPlace(src, Repeat(0, size), overflow_checks), LAMBDA t :
        [c EXCEPT !.phase = "done", !.how = how, !.src = src, !.size = size,
                  !.res = t.res, !.out = t.o])

CxRun(how, src, size) ==
    \E overflow_checks \in BOOLEAN : cx' = CxRan(cx, how, src, size, overflow_checks)

\* inflate of the whole stream with the decoded size
CxInflate ==
    /\ cx.phase = "stream"
    /\ CxRun("whole", cx.stream, cx.n)

\* inflate of a proper prefix of the stream
CxInflateTruncated ==
    /\ cx.phase = "stream" /\ cx.kind \in {"deflate", "stored"}
    /\ \E cut \in 0..(Len(cx.stream) - 1) : CxRun("truncated", SubSeq(cx.stream, 1, cut), cx.n)

\* inflate with a declared size below the decoded size
CxInflateShort ==
    /\ cx.phase = "stream" /\ cx.kind \in {"deflate", "stored"}
    /\ \E size \in 0..(cx.n - 1) : CxRun("short", cx.stream, size)

CxNext ==
    (CxTokenize \/ CxEncode \/ CxEncodeScaled \/ CxEncodeBlock \/ CxInflate
     \/ CxInflateTruncated \/ CxInflateShort)
    /\ UNCHANGED <<rd, rd_ret, pf, lz, fr, tk, sx, wr, vb, inf>>

SpecCodec == CxInit /\ [][CxNext]_vars

\* the first byte of a block written at the start of a stream, when the bit
\* after bfinal and btype is next
FirstByteOfBlock(is_final, use_static, next) ==
    WriterIntoBytes(WriterPushSlice(
        WriterNew, BlockFirstBits(is_final, use_static) \o <<VarBitNew(1, next)>>, 1))[1]

\* C1: for a non-empty input b and each level, the raw stream of deflate is
\* not taken for a zlib stream (the low nibble of its first byte is never 8,
\* whatever block starts it, and nothing is skipped), and inflate of it with
\* decode size |b| returns Ok with exactly b, in either build and whether the
\* items fill one block or several
RawRoundTrip ==
    /\ \A is_final \in BOOLEAN, use_static \in BOOLEAN, next \in 0..1 :
         FirstByteOfBlock(is_final, use_static, next) % 16 # 8
    /\ (cx.kind \in {"deflate", "scaled"} /\ ~cx.zlib /\ cx.phase \in {"stream", "done"})
       => /\ cx.stream # <<>>
          /\ cx.stream[1] % 16 # 8
          /\ InflateHeader(cx.stream) = [res |-> "Ok", skip |-> 0]
    /\ (cx.kind \in {"deflate", "scaled"} /\ ~cx.zlib /\ cx.phase = "done"
           /\ cx.how = "whole")
       => /\ cx.res = "Ok"
          /\ cx.out.buffer = cx.input
          /\ cx.out.position = Len(cx.input)

\* a raw round trip of an input whose items fill several blocks, the last
\* one holding a match that reaches back into the block before it
RawRoundTripWitness ==
    /\ cx.kind = "scaled" /\ ~cx.zlib /\ cx.phase = "done" /\ cx.how = "whole"
    /\ cx.level = "Best"
    /\ Len(cx.input) = CxMaxLen
    /\ Len(cx.items) > cx.block_size
    /\ Len(cx.items) % cx.block_size = 1
    /\ LiteralValue(cx.items[Len(cx.items)]) > 256
    /\ cx.res = "Ok" /\ cx.out.buffer = cx.input

\* a raw round trip through deflate as it is, of an input whose items hold a
\* match
RawRoundTripOneBlock ==
    /\ cx.kind = "deflate" /\ ~cx.zlib /\ cx.phase = "done" /\ cx.how = "whole"
    /\ cx.level = "Best"
    /\ Len(cx.input) = CxRunLen
    /\ \E k \in 1..Len(cx.items) : LiteralValue(cx.items[k]) > 256
    /\ cx.res = "Ok" /\ cx.out.buffer = cx.input

\* C2: for a non-empty input b, each level and each window size, the two
\* header bytes deflate writes with zlib framing are recognised by inflate,
\* pass its validation and are skipped (16 bits), and inflate of the stream
\* with decode size |b| returns Ok with exactly b
ZlibRoundTrip ==
    /\ \A level \in Levels, ws \in 0..7 :
         /\ ZlibHeader(level, ws)[1] % 16 = 8
         /\ InflateHeader(ZlibHeader(level, ws)) = [res |-> "Ok", skip |-> 16]
    /\ (cx.kind \in {"deflate", "scaled"} /\ cx.zlib /\ cx.phase \in {"stream", "done"})
       => /\ SubSeq(cx.stream, 1, 2) = ZlibHeader(cx.level, WindowSizePreferred(Len(cx.input)))
          /\ InflateHeader(cx.stream) = [res |-> "Ok", skip |-> 16]
    /\ (cx.kind \in {"deflate", "scaled"} /\ cx.zlib /\ cx.phase = "done"
           /\ cx.how = "whole")
       => /\ cx.res = "Ok"
          /\ cx.out.buffer = cx.input
          /\ cx.out.position = Len(cx.input)

\* a zlib round trip of the longest input, whose items hold matches
ZlibRoundTripWitness ==
    /\ cx.kind = "deflate" /\ cx.zlib /\ cx.phase = "done" /\ cx.how = "whole"
    /\ cx.level = "Fast"
    /\ Len(cx.input) = CxLongLen
    /\ \E k \in 1..Len(cx.items) : LiteralValue(cx.items[k]) > 256
    /\ InflateHeader(cx.stream).skip = 16
    /\ cx.res = "Ok" /\ cx.out.buffer = cx.input

\* C3: inflate of a proper prefix of a well-formed stream, the prefix ending
\* before the end-of-block symbol of the final block (before the end of the
\* payload for a stored block), with the decoded size, returns
\* Err(UnexpectedEof)
TruncationIsUnexpectedEof ==
    (cx.phase = "done" /\ cx.how = "truncated" /\ 8 * Len(cx.src) <= cx.eob_bit)
    => cx.res = "UnexpectedEof"

\* the truncated run of C3 that returns InvalidData: deflate of "AB" at
\* level Fast cut to two bytes, inside the hclen field of the dynamic block
TruncationIsInvalidData ==
    /\ cx.phase = "done" /\ cx.how = "truncated" /\ cx.kind = "deflate"
    /\ cx.input = <<65, 66>> /\ cx.level = "Fast" /\ ~cx.zlib
    /\ cx.src = <<5, 193>>
    /\ 8 * Len(cx.src) <= cx.eob_bit
    /\ cx.res = "InvalidData"

\* C4: inflate with a declared size below the number of bytes the stream
\* decodes to returns Err(InvalidInput)
ExcessIsInvalidInput ==
    (cx.phase = "done" /\ cx.how = "short") => cx.res = "InvalidInput"

\* the short run of C4 that is accepted: deflate of "AB" at level Best
\* inflated with decode size 1
ExcessIsAccepted ==
    /\ cx.phase = "done" /\ cx.how = "short" /\ cx.kind = "deflate"
    /\ cx.input = <<65, 66>> /\ cx.level = "Best" /\ ~cx.zlib
    /\ cx.src = <<115, 116, 2, 0>> /\ cx.size = 1
    /\ cx.res = "Ok" /\ cx.out.buffer = <<65>>

\* what inflate made of a block of c.lits literals followed by the pair
\* (c.len, c.distance): a distance above c.lits gave Err(InvalidData) with
\* the output position left at c.lits and no byte written after the
\* literals; a distance of at most c.lits was accepted and the pair's bytes
\* were written
PairOutcome(c) ==
    IF c.distance > c.lits
    THEN /\ c.res = "InvalidData"
         /\ c.out.position = c.lits
         /\ \A j \in (c.lits + 1)..Len(c.out.buffer) : c.out.buffer[j] = 0
    ELSE /\ c.res = "Ok"
         /\ c.out.position = c.lits + c.len
         /\ \A i \in 1..c.len :
              c.out.buffer[c.lits + i] = c.out.buffer[c.lits + i - c.distance]

\* C5: in a block of lits literals followed by a length/distance pair,
\* whatever tables the block is written with, a distance above lits makes
\* inflate return Err(InvalidData) with the output position left at lits and
\* no byte written after the literals; a distance of at most lits is
\* accepted and the pair's bytes are written
DistanceIsValidated ==
    (cx.phase = "done" /\ cx.kind \in {"block", "pair"}) => PairOutcome(cx)

\* the same for the blocks whose tables declare two distance codes or more
DistanceIsValidatedWithTable ==
    (cx.phase = "done" /\ (cx.kind = "block" \/ (cx.kind = "pair" /\ cx.hdist >= 2)))
        => PairOutcome(cx)

\* a dynamic block that declares one distance code and starts with the pair
\* (3, 1): inflate returned Ok with one byte written
PairIsSkipped ==
    /\ cx.phase = "done" /\ cx.kind = "pair"
    /\ cx.hdist = 1 /\ cx.lits = 0 /\ cx.distance = 1
    /\ cx.src = <<13, 192, 181, 1, 0, 0, 0, 128, 160, 91, 249, 255, 9, 101, 1>>
    /\ cx.size = 3
    /\ cx.res = "Ok"
    /\ cx.out.position = 1
    /\ cx.out.buffer = <<97, 0, 0>>

\* a pair whose distance is one more than the bytes produced so far
DistanceIsValidatedWitness ==
    /\ cx.phase = "done" /\ cx.kind = "block"
    /\ cx.lits = 2 /\ cx.distance = 3
    /\ cx.res = "InvalidData" /\ cx.out.position = 2

-----------------------------------------------------------------------------
(* Framing of the blocks: deflate on any number of items. The items and   *)
(* the bodies of the blocks are left out; a block is its item count and   *)
(* its is_final flag, and what is kept of its encoding is bfinal and      *)
(* btype as DeflateIrBlock::encode writes them.                           *)

\* most full blocks an item list is cut into
FrMaxBlocks == 3

\* item counts around the multiples of MIN_BLOCK_SIZE
FrItemCounts ==
    {n \in {c * MIN_BLOCK_SIZE + e : c \in 0..FrMaxBlocks, e \in {-1, 0, 1}} : n >= 1}

FrInit ==
    /\ \E items \in FrItemCounts, level \in Levels, zlib \in BOOLEAN :
         fr = [phase |-> "items", items |-> items, level |-> level, zlib |-> zlib,
               blocks |-> <<>>, heads |-> <<>>]
    /\ rd = RdIdle /\ rd_ret = RdRetIdle /\ pf = PfIdle /\ lz = LzIdle /\ cx = CxIdle
    /\ tk = TkIdle /\ sx = SxIdle /\ wr = WrIdle /\ vb = VbIdle /\ inf = InfIdle

\* deflate, lines 52-57: the chunks, the last one marked
FrSplit ==
    /\ fr.phase = "items"
    /\ fr' = [fr EXCEPT
                !.phase = "blocks",
                !.blocks = MarkLast(
                    [c \in 1..ChunkCount(fr.items, MIN_BLOCK_SIZE) |->
                        [len |-> Min(MIN_BLOCK_SIZE, fr.items - (c - 1) * MIN_BLOCK_SIZE),
                         is_final |-> FALSE]] \o <<>>)]

\* deflate, lines 69-84: the next block is encoded; the fast levels write
\* dynamic tables, the others whichever encoding of the block is shorter
FrBlock ==
    /\ fr.phase = "blocks"
    /\ Len(fr.heads) < Len(fr.blocks)
    /\ \E use_static \in (IF IsFastMethod(fr.level) THEN {FALSE} ELSE BOOLEAN) :
         LET bits == BlockFirstBits(fr.blocks[Len(fr.heads) + 1].is_final, use_static) IN
         fr' = [fr EXCEPT !.heads = Append(@, [bfinal |-> bits[1].value,
                                               btype |-> bits[2].value])]

\* deflate, lines 86-92: the stream is returned
FrFinish ==
    /\ fr.phase = "blocks"
    /\ Len(fr.heads) = Len(fr.blocks)
    /\ fr' = [fr EXCEPT !.phase = "done"]

FrNext == (FrSplit \/ FrBlock \/ FrFinish) /\ UNCHANGED <<rd, rd_ret, pf, lz, cx, tk, sx, wr, vb, inf>>

SpecFraming == FrInit /\ [][FrNext]_vars

\* C7: in every stream deflate returns, raw or zlib, at every level and for
\* any number of blocks, the last block is written with bfinal = 1 and every
\* block before it with bfinal = 0
LastBlockIsFinal ==
    /\ fr.phase \in {"blocks", "done"}
       => \A c \in 1..Len(fr.heads) :
            fr.heads[c].bfinal = (IF c = Len(fr.blocks) THEN 1 ELSE 0)
    /\ fr.phase = "done"
       => /\ Len(fr.heads) = ChunkCount(fr.items, MIN_BLOCK_SIZE)
          /\ Len(fr.heads) >= 1
          /\ fr.heads[Len(fr.heads)].bfinal = 1

\* a returned stream of more than two blocks
LastBlockIsFinalWitness ==
    /\ fr.phase = "done"
    /\ fr.zlib
    /\ Len(fr.heads) >= 3
    /\ fr.heads[1].bfinal = 0
    /\ fr.heads[Len(fr.heads)].bfinal = 1

-----------------------------------------------------------------------------
(* lz/match_finder/sais.rs: the suffix array by induced sorting *)

RECURSIVE SaisLors(_, _)
\* sa_is, lines 64-82: L or S for the suffixes i..Len(s), offsets from 0, the
\* S of the sentinel last
SaisLors(s, i) ==
    IF i >= Len(s) THEN <<"S">>
    ELSE With(SaisLors(s, i + 1), LAMBDA rest :
         LET data == s[i + 1]
             prev_data == IF i + 1 >= Len(s) THEN -1 ELSE s[i + 2]
         IN  <<IF data < prev_data THEN "S"
               ELSE IF data > prev_data THEN "L" ELSE rest[1]>> \o rest)

RECURSIVE AscendingSeq(_)
\* the members of a set of numbers, smallest first
AscendingSeq(S) ==
    IF S = {} THEN <<>>
    ELSE With(SetMin(S), LAMBDA m : <<m>> \o AscendingSeq(S \ {m}))

\* sa_is, lines 85-97: the offsets of an S after an L, then the sentinel
\* (which, after an L, is among them already)
SaisLmsIndexes(lors) ==
    Append(AscendingSeq({i \in 1..(Len(lors) - 1) : lors[i] = "L" /\ lors[i + 1] = "S"}),
           Len(lors) - 1)

\* sa_is, lines 93-95: lors_vec with the LMS offsets marked
SaisMarkLms(lors, lms_indexes) ==
    [i \in 1..Len(lors) |->
        IF \E k \in 1..(Len(lms_indexes) - 1) : lms_indexes[k] = i - 1 THEN "LMS"
        ELSE lors[i]] \o <<>>

\* sa_is, lines 99-106: counts[0] for the sentinel, counts[1 + a] for a
SaisCounts(s, alphabet_max) ==
    [k \in 1..(alphabet_max + 2) |->
        IF k = 1 THEN 1 ELSE Cardinality({i \in 1..Len(s) : s[i] = k - 2})] \o <<>>

\* make_buckets: the running sums of counts
MakeBuckets(counts) == [k \in 1..Len(counts) |-> RangeSum(counts, 1, k)] \o <<>>

RECURSIVE SaisInsertLms(_, _, _, _, _)
\* sa_is, lines 116-131 and 187-199: the offsets list[k], ..., list[1] each
\* put at the end of the bucket of its first value, the sentinel at sa[0];
\* buckets is make_buckets(counts)[1..]
SaisInsertLms(s, sa, buckets, list, k) ==
    IF k < 1 THEN sa
    ELSE IF list[k] < Len(s)
    THEN LET alphabet == s[list[k] + 1]
             bi == buckets[alphabet + 1] - 1
         IN  SaisInsertLms(s, [sa EXCEPT ![bi + 1] = list[k]],
                           [buckets EXCEPT ![alphabet + 1] = bi], list, k - 1)
    ELSE SaisInsertLms(s, [sa EXCEPT ![1] = list[k]], buckets, list, k - 1)

RECURSIVE SortTypeL(_, _, _, _, _)
\* sort_type_l, from position i of sa on; buckets is make_buckets(counts)
SortTypeL(s, sa, lors_vec, buckets, i) ==
    IF i >= Len(sa) THEN sa
    ELSE LET index == sa[i + 1] - 1 IN
         IF index >= 0 /\ index < Len(lors_vec) /\ lors_vec[index + 1] = "L"
         THEN LET alphabet == s[index + 1]
                  bi == buckets[alphabet + 1]
              IN  SortTypeL(s, [sa EXCEPT ![bi + 1] = index], lors_vec,
                            [buckets EXCEPT ![alphabet + 1] = bi + 1], i + 1)
         ELSE SortTypeL(s, sa, lors_vec, buckets, i + 1)

RECURSIVE SortTypeS(_, _, _, _, _)
\* sort_type_s, from position i of sa down; buckets is
\* make_buckets(counts)[1..]; is_s holds for S and LMS
SortTypeS(s, sa, lors_vec, buckets, i) ==
    IF i < 0 THEN sa
    ELSE LET index == sa[i + 1] - 1 IN
         IF index >= 0 /\ index < Len(lors_vec) /\ lors_vec[index + 1] # "L"
         THEN LET alphabet == s[index + 1]
                  bi == buckets[alphabet + 1] - 1
              IN  SortTypeS(s, [sa EXCEPT ![bi + 1] = index], lors_vec,
                            [buckets EXCEPT ![alphabet + 1] = bi], i - 1)
         ELSE SortTypeS(s, sa, lors_vec, buckets, i - 1)

\* the two induced sorts that follow an insertion of LMS offsets
SaisInduce(s, sa, lors_vec, counts) ==
    With(MakeBuckets(counts), LAMBDA buckets :
        With(SortTypeL(s, sa, lors_vec, buckets, 0), LAMBDA sa1 :
            SortTypeS(s, sa1, lors_vec, Tail(buckets), Len(sa1) - 1)))

\* sa_is, lines 125-126: lms_substrs[x], None for the sentinel
SaisLmsSubstr(s, lms_indexes, x) ==
    IF x >= Len(s) THEN None
    ELSE LET k == CHOOSE j \in 1..(Len(lms_indexes) - 1) : lms_indexes[j] = x IN
         Some(SubSeq(s, x + 1, Min(lms_indexes[k + 1], Len(s) - 1) + 1))

RECURSIVE SaisNames(_, _, _, _, _, _)
\* sa_is, lines 149-162: the names of the LMS substrings in the order of lmssa
SaisNames(s, lms_indexes, lmssa, k, lhs, names) ==
    IF k > Len(lmssa) THEN names
    ELSE With(SaisLmsSubstr(s, lms_indexes, lmssa[k]), LAMBDA rhs :
         SaisNames(s, lms_indexes, lmssa, k + 1, rhs,
                   Append(names, (IF Len(names) = 0 THEN 0 ELSE names[Len(names)])
                                     + (IF lhs # rhs THEN 1 ELSE 0))))

\* sa_is, lines 165-172: the names in the order of their offsets
SaisReduced(lmssa, names) ==
    LET n == Len(lmssa)
        rank(i) == Cardinality({j \in 1..n :
                       lmssa[j] < lmssa[i] \/ (lmssa[j] = lmssa[i] /\ j <= i)})
    IN  [p \in 1..n |-> names[CHOOSE i \in 1..n : rank(i) = p]] \o <<>>

\* sa_is, lines 141-146: the LMS offsets in the order sa holds them
SaisLmssa(sa, lors_vec) ==
    SelectSeq(sa, LAMBDA suffix : suffix # -1 /\ lors_vec[suffix + 1] = "LMS")

RECURSIVE SaIs(_, _)
\* sa_is(s, sa, alphabet_max) on an sa of Len(s) + 1 entries -1:
\* [res, sa]. names.len() - 1 underflows when no LMS offset was found, which
\* ends the call (a panic, or a recursion without end when overflow checks
\* are off): res "crash"
SaIs(s, alphabet_max) ==
    With(SaisLmsIndexes(SaisLors(s, 0)), LAMBDA lms_indexes :
    With(SaisMarkLms(SaisLors(s, 0), lms_indexes), LAMBDA lors_vec :
    With(SaisCounts(s, alphabet_max), LAMBDA counts :
    With(SaisInduce(s,
                    SaisInsertLms(s, Repeat(-1, Len(s) + 1), Tail(MakeBuckets(counts)),
                                  lms_indexes, Len(lms_indexes) - 1),
                    lors_vec, counts), LAMBDA sa1 :
    With(SaisLmssa(sa1, lors_vec), LAMBDA lmssa1 :
    With(SaisNames(s, lms_indexes, lmssa1, 1, None, <<>>), LAMBDA names :
    IF Len(names) = 0 THEN [res |-> "crash", sa |-> sa1]
    ELSE
    With(IF names[Len(names)] < Len(names) - 1
         THEN With(SaisReduced(lmssa1, names), LAMBDA s2 :
              With(SaIs(s2, SeqMax(s2, Len(s2))), LAMBDA r :
                  IF r.res # "Ok" THEN r
                  ELSE [res |-> "Ok",
                        sa |-> [j \in 1..Len(s2) |-> lms_indexes[r.sa[j + 1] + 1]] \o <<>>]))
         ELSE [res |-> "Ok", sa |-> lmssa1], LAMBDA lmssa :
        IF lmssa.res # "Ok" THEN lmssa
        ELSE [res |-> "Ok",
              sa |-> SaisInduce(s,
                         SaisInsertLms(s, Repeat(-1, Len(s) + 1),
                                       Tail(MakeBuckets(counts)), lmssa.sa, Len(lmssa.sa)),
                         lors_vec, counts)])))))))

\* SuffixArray::new(source).as_slice(): [res, sa]
SuffixArrayNew(source) ==
    With(SaIs(source, SeqMax(source, Len(source))), LAMBDA r :
        [res |-> r.res, sa |-> IF r.res = "Ok" THEN Tail(r.sa) ELSE <<>>])

\* MatchFinder::new (source not empty): [s, sa, rank, lcp]
FinderNew(s) ==
    With(SuffixArrayNew(s).sa, LAMBDA sa :
    With(RankArray(sa), LAMBDA rev_sa :
        [s |-> s, sa |-> sa, rank |-> rev_sa,
         lcp |-> Kasai(s, sa, rev_sa, 0, 0, Repeat(0, Len(s)))]))

\* the longest source over two values; from seven on, sources whose LMS
\* substrings the recursive call has to order
SxMaxLen == 8
\* the longest source over three values
SxShortLen == 4

SxSources ==
    UNION {[1..n -> {0, 1}] : n \in 0..SxMaxLen}
        \cup UNION {[1..n -> {0, 1, 2}] : n \in 0..SxShortLen}
        \cup {<<97, 98, 114, 97, 99, 97, 100, 97, 98, 114, 97>>,
              <<109, 105, 115, 115, 105, 115, 115, 105, 112, 112, 105>>}

SxInit ==
    /\ \E source \in SxSources :
         sx = [phase |-> "source", source |-> source \o <<>>, res |-> "none", sa |-> <<>>,
               lcp |-> <<>>]
    /\ rd = RdIdle /\ rd_ret = RdRetIdle /\ pf = PfIdle /\ lz = LzIdle /\ cx = CxIdle
    /\ fr = FrIdle /\ tk = TkIdle /\ wr = WrIdle /\ vb = VbIdle /\ inf = InfIdle

\* SuffixArray::new(source)
SxBuild ==
    /\ sx.phase = "source"
    /\ sx' = With(SuffixArrayNew(sx.source), LAMBDA r :
                 [sx EXCEPT !.phase = "sa", !.res = r.res, !.sa = r.sa])

\* LcpArray::new(source, sa, rev_sa), as MatchFinder::new goes on
SxLcp ==
    /\ sx.phase = "sa"
    /\ sx.res = "Ok"
    /\ sx' = [sx EXCEPT !.phase = "lcp",
                        !.lcp = Kasai(sx.source, sx.sa, RankArray(sx.sa), 0, 0,
                                      Repeat(0, Len(sx.source)))]

SxNext ==
    (SxBuild \/ SxLcp)
    /\ UNCHANGED <<rd, rd_ret, pf, lz, cx, fr, tk, wr, vb, inf>>

SpecSais == SxInit /\ [][SxNext]_vars

\* C17 as stated: for every byte string SuffixArray::new returns the offsets
\* 0..n-1 in the order of their suffixes, as the comparison sort does; for
\* "abracadabra" that is 10, 7, 0, 3, 5, 8, 1, 4, 6, 9, 2
C17_SaisIsNaiveSort ==
    sx.phase = "sa" =>
        /\ sx.res = "Ok"
        /\ sx.sa = SuffixArray(sx.source)
        /\ sx.source = <<97, 98, 114, 97, 99, 97, 100, 97, 98, 114, 97>>
               => sx.sa = <<10, 7, 0, 3, 5, 8, 1, 4, 6, 9, 2>>

\* SuffixArray::new did not return for the empty string
C17_EmptySourceCrashes ==
    /\ sx.phase = "sa"
    /\ sx.source = <<>>
    /\ sx.res = "crash"

-----------------------------------------------------------------------------
(* lz/lzss.rs and lz/match_finder: the tokenizer strategies on one input *)

\* the longest input of the exhaustive part
TkMaxLen == 6
\* the length of the long runs, which pass the cap of DEFLATE
TkLongLen == 264
TkMaxDistances == {1, 2, 4, 32768}
TkMaxLens == {3, 4, 258}
\* caps below MIN_LEN
TkShortMaxLens == {1, 2}
TkMaxSkip == 1
TkMaxAttempts == 2
TkMinLens == {3, 4}
TkPurgeLimits == {0, 1, 3}

TkInputs == UNION {[1..n -> {0, 1}] : n \in 0..TkMaxLen}

TkConfigs ==
    {LzssConfigurationNew(d, l, s, a) :
        d \in TkMaxDistances, l \in TkMaxLens, s \in 0..TkMaxSkip, a \in 0..TkMaxAttempts}

\* configurations whose max_len is below MIN_LEN
TkShortConfigs ==
    {LzssConfigurationNew(d, l, s, a) :
        d \in {1, 32768}, l \in TkShortMaxLens, s \in 0..TkMaxSkip, a \in 1..TkMaxAttempts}

\* the configurations deflate builds for a 32 KiB window
TkDeflateConfigs == {LzssConfigurationNew(32768, 258, 1, a) : a \in 0..1}

\* inputs in which two earlier places repeat the bytes at a later place
\* equally far
TkTieInputs == {<<0, 0, 0, 0, 1, 0, 0, 0>>, <<0, 0, 1, 0, 0, 0, 1, 1, 0, 0, 1>>}

TkStart ==
    [phase |-> "input", strategy |-> "none", input |-> <<>>,
     config |-> LzssConfigurationNew(1, 3, 0, 0), res |-> "none", tokens |-> <<>>,
     pos |-> 0, min_len |-> 0, max_distance |-> 0, found |-> [len |-> 0, distance |-> 0]]

TkInit ==
    /\ \/ \E input \in TkInputs, config \in TkConfigs :
            tk = [TkStart EXCEPT !.input = input \o <<>>, !.config = config]
       \/ \E config \in TkDeflateConfigs, n \in {TkLongLen - 2, TkLongLen}, last \in {0, 1} :
            tk = [TkStart EXCEPT !.input = Repeat(0, n - 1) \o <<last>>,
                                 !.config = config]
       \/ \E input \in TkTieInputs, config \in TkDeflateConfigs :
            tk = [TkStart EXCEPT !.input = input, !.config = config]
    /\ rd = RdIdle /\ rd_ret = RdRetIdle /\ pf = PfIdle /\ lz = LzIdle /\ cx = CxIdle
    /\ fr = FrIdle /\ sx = SxIdle /\ wr = WrIdle /\ vb = VbIdle /\ inf = InfIdle

\* the inputs of TkInit, and every short input under a cap below MIN_LEN
TkInitAll ==
    /\ \/ \E input \in TkInputs, config \in TkConfigs \cup TkShortConfigs :
            tk = [TkStart EXCEPT !.input = input \o <<>>, !.config = config]
       \/ \E config \in TkDeflateConfigs, n \in {TkLongLen - 2, TkLongLen}, last \in {0, 1} :
            tk = [TkStart EXCEPT !.input = Repeat(0, n - 1) \o <<last>>,
                                 !.config = config]
       \/ \E input \in TkTieInputs, config \in TkDeflateConfigs :
            tk = [TkStart EXCEPT !.input = input, !.config = config]
    /\ rd = RdIdle /\ rd_ret = RdRetIdle /\ pf = PfIdle /\ lz = LzIdle /\ cx = CxIdle
    /\ fr = FrIdle /\ sx = SxIdle /\ wr = WrIdle /\ vb = VbIdle /\ inf = InfIdle

\* the record after a tokenizer returned
TkRan(t, strategy, res, tokens) ==
    [t EXCEPT !.phase = "done", !.strategy = strategy, !.res = res, !.tokens = tokens]

\* LZSS::encode_fast
TkEncodeFast ==
    /\ tk.phase = "input"
    /\ tk' = IF tk.input = <<>> THEN TkRan(tk, "fast", "InvalidInput", <<>>)
             ELSE TkRan(tk, "fast", "Ok", EncodeFast(tk.input, tk.config))

\* LZSS::encode_lcp; the suffix array is built for the short inputs
TkEncodeLcp ==
    /\ tk.phase = "input"
    /\ Len(tk.input) <= TkMaxLen \/ tk.config.search_attempts = 1
    /\ tk' = IF tk.input = <<>> THEN TkRan(tk, "lcp", "InvalidInput", <<>>)
             ELSE TkRan(tk, "lcp", "Ok", EncodeLcp(tk.input, tk.config))

\* LZSS::encode without a distance mapping, under a cap of MIN_LEN or more
TkEncode ==
    /\ tk.phase = "input"
    /\ Len(tk.input) <= TkMaxLen
    /\ tk.config.max_len >= LZSS_MIN_LEN
    /\ \E threshold_len \in {0, 3}, cache_purge_limit \in TkPurgeLimits :
         tk' = IF tk.input = <<>> THEN TkRan(tk, "encode", "InvalidInput", <<>>)
               ELSE With(LzssEncode(tk.input, tk.config, ThresholdLen(threshold_len),
                                    CachePurgeLimit(cache_purge_limit)),
                         LAMBDA r : TkRan(tk, "encode", r.res, r.tokens))

\* MatchFinder::new(input).matches(pos, min_len, max_distance)
TkFinder ==
    /\ tk.phase = "input"
    /\ Len(tk.input) <= TkMaxLen \/ tk.input \in TkTieInputs
    /\ \E pos \in 0..(Len(tk.input) - 1), min_len \in TkMinLens :
         tk' = [tk EXCEPT !.phase = "done", !.strategy = "finder", !.res = "Ok",
                          !.pos = pos, !.min_len = min_len,
                          !.max_distance = tk.config.max_distance,
                          !.found = FinderMatches(FinderNew(tk.input), pos, min_len,
                                                  tk.config.max_distance)]

TkNext ==
    (TkEncodeFast \/ TkEncodeLcp \/ TkEncode \/ TkFinder)
    /\ UNCHANGED <<rd, rd_ret, pf, lz, cx, fr, sx, wr, vb, inf>>

SpecTok == TkInit /\ [][TkNext]_vars

SpecTokAll == TkInitAll /\ [][TkNext]_vars

\* the bytes a token stands for
TokenSize(t) == IF t.lit THEN 1 ELSE t.len

RECURSIVE TokenCursor(_, _)
\* the input position of the k-th token: the bytes of the tokens before it
TokenCursor(tokens, k) ==
    IF k <= 1 THEN 0 ELSE TokenCursor(tokens, k - 1) + TokenSize(tokens[k - 1])

\* a match of len bytes at cursor that repeats the bytes distance before it
MatchValid(input, cursor, len, distance, max_distance) ==
    /\ distance >= 1
    /\ distance <= cursor
    /\ distance <= max_distance
    /\ len >= LZSS_MIN_LEN
    /\ cursor + len <= Len(input)
    /\ \A j \in 1..len : input[cursor + j] = input[cursor - distance + j]

\* C11: every match token of encode_fast, encode and encode_lcp, and every
\* match MatchFinder::matches returns, repeats the bytes found distance before
\* its position, with 1 <= distance <= position, distance <= max_distance and
\* len >= 3
C11_MatchesValid ==
    tk.phase = "done" =>
        /\ \A k \in 1..Len(tk.tokens) :
             ~tk.tokens[k].lit =>
                 MatchValid(tk.input, TokenCursor(tk.tokens, k), tk.tokens[k].len,
                            tk.tokens[k].distance, tk.config.max_distance)
        /\ (tk.strategy = "finder" /\ tk.found.len # 0) =>
               /\ MatchValid(tk.input, tk.pos, tk.found.len, tk.found.distance,
                             tk.max_distance)
               /\ tk.found.len >= tk.min_len

\* encode_lcp emitted a match at the far edge of a window of two bytes, past
\* the second position
C11_Witness ==
    /\ tk.phase = "done" /\ tk.strategy = "lcp" /\ tk.config.search_attempts # 1
    /\ tk.config.max_distance = 2
    /\ \E k \in 1..Len(tk.tokens) :
         /\ ~tk.tokens[k].lit
         /\ tk.tokens[k].distance = 2
         /\ TokenCursor(tk.tokens, k) > 2

\* encode_fast cut a match of five bytes under a cap of two and emitted
\* matches of two bytes
C11_ShortMatch ==
    /\ tk.phase = "done" /\ tk.strategy = "fast" /\ tk.res = "Ok"
    /\ tk.config.max_len = 2
    /\ \E k \in 1..Len(tk.tokens) :
         /\ ~tk.tokens[k].lit
         /\ tk.tokens[k].len = 2
         /\ tk.tokens[k].distance = 1
         /\ TokenCursor(tk.tokens, k) = 1

RECURSIVE TokenCopy(_, _, _)
\* the bytes a match stands for, appended one by one from distance before
TokenCopy(out, distance, len) ==
    IF len = 0 THEN out
    ELSE IF distance < 1 \/ distance > Len(out) THEN Append(out, -1)
    ELSE TokenCopy(Append(out, out[Len(out) - distance + 1]), distance, len - 1)

RECURSIVE TokensDecode(_, _, _)
\* the bytes a token sequence stands for
TokensDecode(tokens, k, out) ==
    IF k > Len(tokens) THEN out
    ELSE IF tokens[k].lit THEN TokensDecode(tokens, k + 1, Append(out, tokens[k].value))
    ELSE TokensDecode(tokens, k + 1, TokenCopy(out, tokens[k].distance, tokens[k].len))

\* C12: encode_fast and encode_lcp emit no match longer than max_len (258 for
\* DEFLATE) or shorter than 3, and none with a distance outside
\* 1..max_distance; a match cut at max_len whose bytes go on for 3 or more is
\* followed by a match of the same distance that takes up to max_len of them;
\* the tokens stand for every byte of the input, a dropped remnant included
C12_SplitAtCap ==
    (tk.phase = "done" /\ tk.strategy \in {"fast", "lcp"} /\ tk.res = "Ok") =>
        /\ \A k \in 1..Len(tk.tokens) :
             ~tk.tokens[k].lit =>
                 /\ tk.tokens[k].len >= LZSS_MIN_LEN
                 /\ tk.tokens[k].len <= tk.config.max_len
                 /\ tk.tokens[k].distance >= 1
                 /\ tk.tokens[k].distance <= tk.config.max_distance
                 /\ (/\ tk.tokens[k].len = tk.config.max_len
                     /\ MatchingLen(tk.input, TokenCursor(tk.tokens, k + 1),
                                    tk.tokens[k].distance, 0) >= LZSS_MIN_LEN)
                    => /\ k < Len(tk.tokens)
                       /\ ~tk.tokens[k + 1].lit
                       /\ tk.tokens[k + 1].distance = tk.tokens[k].distance
                       /\ tk.tokens[k + 1].len =
                              Min(tk.config.max_len,
                                  MatchingLen(tk.input, TokenCursor(tk.tokens, k + 1),
                                              tk.tokens[k].distance, 0))
        /\ TokensDecode(tk.tokens, 1, <<>>) = tk.input

\* encode_fast cut a run at 258 bytes and went on with the same distance
C12_Witness ==
    /\ tk.phase = "done" /\ tk.strategy = "fast" /\ tk.config.max_len = 258
    /\ \E k \in 1..(Len(tk.tokens) - 1) :
         /\ ~tk.tokens[k].lit /\ tk.tokens[k].len = 258
         /\ ~tk.tokens[k + 1].lit /\ tk.tokens[k + 1].len < 258
         /\ tk.tokens[k + 1].distance = tk.tokens[k].distance

-----------------------------------------------------------------------------
(* deflate/inflate.rs: inflate on streams built field by field *)

\* a stored block on a byte boundary: bfinal, btype 00, LEN, NLEN, the bytes
StoredBlock(bfinal, data) ==
    <<bfinal, Len(data) % 256, Len(data) \div 256,
      (65535 - Len(data)) % 256, (65535 - Len(data)) \div 256>> \o data

\* the literal/length code lengths the built blocks carry: 'a' in one bit,
\* 255 and end-of-block in two
InfLitLengths ==
    [i \in 1..257 |-> IF i - 1 = 97 THEN 1 ELSE IF i - 1 \in {255, 256} THEN 2 ELSE 0] \o <<>>

\* the distance lengths end the code length stream in one of these ways: a
\* run of a repeat escape, [sym, extra], or hdist plain lengths of 2
InfTails ==
    {[sym |-> 16, extra |-> e] : e \in 0..3}
        \cup {[sym |-> 17, extra |-> e] : e \in 0..7}
        \cup {[sym |-> 18, extra |-> e] : e \in {0, 1}}
        \cup {[sym |-> 2, extra |-> 0]}

\* the most distance codes a built block declares
InfMaxHdist == 6

\* the lengths a tail stands for
InfTailCount(tail, hdist) ==
    CASE tail.sym = 16 -> 3 + tail.extra
      [] tail.sym = 17 -> 3 + tail.extra
      [] tail.sym = 18 -> 11 + tail.extra
      [] OTHER -> hdist

\* the symbols of the code length stream, [sym, extra]: 97 zeros, 1, 157
\* zeros, 2, 2, and the tail
InfCodeLengthSymbols(tail, hdist) ==
    <<[sym |-> 18, extra |-> 86], [sym |-> 1, extra |-> 0],
      [sym |-> 18, extra |-> 127], [sym |-> 18, extra |-> 8],
      [sym |-> 2, extra |-> 0], [sym |-> 2, extra |-> 0]>>
        \o (IF tail.sym = 2 THEN Repeat(tail, hdist) ELSE <<tail>>)

\* a final dynamic block with hlit 257 and the given hdist whose code length
\* stream ends in tail, holding the literal 'a' and end-of-block
DynamicStream(tail, hdist) ==
    With(EncoderCodes(InfMetaLengths), LAMBDA meta :
    With(EncoderCodes(InfLitLengths), LAMBDA lit :
        WriterIntoBytes(WriterPushSlice(WriterNew,
            <<VarBitNew(1, 1), VarBitNew(2, 2), VarBitNew(5, 0), VarBitNew(5, hdist - 1),
              VarBitNew(4, 14)>>
            \o [k \in 1..18 |-> VarBitNew(3, InfMetaLengths[ORDER_DEFLATE[k] + 1])]
            \o InfSymbolsBits(meta, InfCodeLengthSymbols(tail, hdist), 1)
            \o <<EncoderCodeOf(lit, 97), EncoderCodeOf(lit, 256)>>, 1))))

\* the most stored blocks a built stream holds
InfMaxBlocks == 3

\* the bytes a stored block of a built stream may hold
InfDatas == {<<>>, <<1>>, <<17, 33>>}

RECURSIVE InfStoredBlocks(_, _, _)
\* the stored blocks with the bfinal bits finals and the bytes datas, from
\* block k on
InfStoredBlocks(finals, datas, k) ==
    IF k > Len(finals) THEN <<>>
    ELSE StoredBlock(finals[k], datas[k]) \o InfStoredBlocks(finals, datas, k + 1)

\* the first block with bfinal set, Len(finals) + 1 when there is none
InfFirstFinal(finals) ==
    IF \E k \in 1..Len(finals) : finals[k] = 1
    THEN SetMin({k \in 1..Len(finals) : finals[k] = 1})
    ELSE Len(finals) + 1

RECURSIVE InfBlocksData(_, _)
\* the bytes of the blocks 1..k
InfBlocksData(datas, k) ==
    IF k < 1 THEN <<>> ELSE InfBlocksData(datas, k - 1) \o datas[k]

\* bytes that follow the last block of a built stream
InfTrailers == {<<>>, <<0>>, <<255, 255>>, <<1, 1, 0, 254, 255, 9>>, <<0, 98, 0, 98>>}

\* the header deflate writes for the default level and a 32 KiB window
InfZlibHeader == <<120, 156>>

InfStart ==
    [phase |-> "input", kind |-> "none", input |-> <<>>, size |-> 0, zlib |-> FALSE,
     end |-> 0, expect |-> <<>>, final |-> FALSE, total |-> 0, expected |-> 0,
     res |-> "none", out |-> LzNew(<<>>), consumed |-> 0, tres |-> "none", tlen |-> 0]

InfInit ==
    /\ \/ \E cmf \in {16 * x + 8 : x \in 0..15}, flg \in 0..255, body \in BOOLEAN :
            inf = [InfStart EXCEPT !.kind = "header", !.zlib = TRUE, !.size = 1,
                       !.input = <<cmf, flg>> \o (IF body THEN StoredBlock(1, <<7>>) ELSE <<>>)]
       \/ \E n \in 1..InfMaxBlocks, zlib \in BOOLEAN, trailer \in InfTrailers,
             more \in 0..1 :
            \E finals \in [1..n -> {0, 1}], datas \in [1..n -> InfDatas] :
                inf = [InfStart EXCEPT
                          !.kind = "blocks", !.zlib = zlib,
                          !.input = (IF zlib THEN InfZlibHeader ELSE <<>>)
                                        \o InfStoredBlocks(finals, datas, 1) \o trailer,
                          !.final = InfFirstFinal(finals) <= n,
                          !.end = (IF zlib THEN 2 ELSE 0)
                                      + Len(InfStoredBlocks(
                                            SubSeq(finals, 1, Min(n, InfFirstFinal(finals))),
                                            datas, 1)),
                          !.expect = InfBlocksData(datas, Min(n, InfFirstFinal(finals))),
                          !.size = Len(InfBlocksData(datas, Min(n, InfFirstFinal(finals))))
                                       + more]
       \/ \E tail \in InfTails, hdist \in 1..InfMaxHdist, trailer \in InfTrailers :
            inf = [InfStart EXCEPT
                      !.kind = "dynamic",
                      !.input = DynamicStream(tail, hdist) \o trailer,
                      !.end = Len(DynamicStream(tail, hdist)),
                      !.final = TRUE, !.expect = <<97>>, !.size = 2,
                      !.total = 257 + InfTailCount(tail, hdist),
                      !.expected = 257 + hdist]
    /\ rd = RdIdle /\ rd_ret = RdRetIdle /\ pf = PfIdle /\ lz = LzIdle /\ cx = CxIdle
    /\ fr = FrIdle /\ tk = TkIdle /\ sx = SxIdle /\ wr = WrIdle /\ vb = VbIdle

\* the bits a reader has passed
ReaderConsumed(r) == 8 * r.pos - r.left

\* the reader of inflate_in_place when it returns
InflateReader(input, buffer, overflow_checks) ==
    With(InflateHeader(input), LAMBDA h :
    IF h.res # "Ok" THEN ReaderNew(input)
    ELSE InflateBlocks(IF h.skip > 0 THEN Advance(ReaderNew(input), h.skip).r
                       ELSE ReaderNew(input),
                       LzNew(buffer), overflow_checks).r)

\* the record after inflate returned
InfRan(t, overflow_checks) ==
    With(Inflate(t.input, t.size, overflow_checks), LAMBDA i :
        [t EXCEPT !.phase = "done", !.res = i.res, !.out = i.o,
                  !.consumed = ReaderConsumed(InflateReader(t.input, Repeat(0, t.size),
                                                            overflow_checks))])

\* inflate(input, size)
InfInflate ==
    /\ inf.phase = "input"
    /\ \E overflow_checks \in BOOLEAN : inf' = InfRan(inf, overflow_checks)

\* the record after decode_prefix_table_deflate returned, called as the
\* dynamic block branch calls it: past bfinal, btype, hlit and hdist
InfTableRan(t) ==
    With(DecodePrefixTableDeflate(Advance(ReaderNew(t.input), 13).r, t.expected), LAMBDA d :
        [t EXCEPT !.phase = "table", !.tres = d.res, !.tlen = Len(d.output)])

\* decode_prefix_table_deflate on the code length stream of a dynamic block
InfDecodeTable ==
    /\ inf.phase = "input"
    /\ inf.kind = "dynamic"
    /\ inf' = InfTableRan(inf)

InfNext ==
    (InfInflate \/ InfDecodeTable)
    /\ UNCHANGED <<rd, rd_ret, pf, lz, cx, fr, tk, sx, wr, vb>>

SpecInflate == InfInit /\ [][InfNext]_vars

\* C13 as stated: a repeat escape whose run carries the code length stream
\* past hlit + hdist makes decode_prefix_table_deflate fail with InvalidData,
\* and a table it returns holds exactly hlit + hdist lengths
C13_OvershootIsInvalidData ==
    inf.phase = "table" =>
        /\ inf.total > inf.expected => inf.tres = "InvalidData"
        /\ inf.tres = "Ok" => inf.tlen = inf.expected

\* decode_prefix_table_deflate returned Ok with more lengths than hlit + hdist
C13_OvershootAccepted ==
    /\ inf.phase = "table"
    /\ inf.total > inf.expected
    /\ inf.tres = "Ok"
    /\ inf.tlen = inf.total

\* C14 as stated: inflate takes the blocks in stream order and stops after
\* the first block with bfinal set: given room for one more byte it has then
\* passed exactly the bits up to the end of that block, the output is the
\* bytes of the blocks up to and including it, and what follows the block
\* changes nothing
C14_StopsAfterFinalBlock ==
    (inf.phase = "done" /\ inf.kind = "blocks" /\ inf.final) =>
        /\ \A overflow_checks \in BOOLEAN :
             /\ inf.res = Inflate(SubSeq(inf.input, 1, inf.end), inf.size,
                                  overflow_checks).res
             /\ inf.out = Inflate(SubSeq(inf.input, 1, inf.end), inf.size,
                                  overflow_checks).o
        /\ inf.consumed <= 8 * inf.end
        /\ inf.res = "Ok"
        /\ inf.out.position = Len(inf.expect)
        /\ SubSeq(inf.out.buffer, 1, Len(inf.expect)) = inf.expect
        /\ inf.size > Len(inf.expect) => inf.consumed = 8 * inf.end

\* inflate returned Ok after a block whose bfinal bit is clear, before the
\* block with bfinal set and without its bytes
C14_StopsBeforeFinalBlock ==
    /\ inf.phase = "done" /\ inf.kind = "blocks" /\ inf.final
    /\ inf.res = "Ok"
    /\ inf.size > Len(inf.expect)
    /\ inf.consumed < 8 * inf.end
    /\ inf.out.position < Len(inf.expect)

\* C15 as stated: an input whose first byte has low nibble 8 and whose first
\* two bytes fail (cmf * 256 + flg) % 31 = 0 makes inflate return InvalidData
C15_BadCheckIsInvalidData ==
    (/\ inf.phase = "done" /\ inf.kind = "header"
     /\ inf.input[1] % 16 = 8
     /\ (inf.input[1] * 256 + inf.input[2]) % 31 # 0)
        => inf.res = "InvalidData"

\* inflate returned UnsupportedFormat for a header that fails the check and
\* has FDICT set
C15_BadCheckIsUnsupportedFormat ==
    /\ inf.phase = "done" /\ inf.kind = "header"
    /\ inf.input[1] % 16 = 8
    /\ (inf.input[1] * 256 + inf.input[2]) % 31 # 0
    /\ BitAnd(inf.input[2], 32) # 0
    /\ inf.res = "UnsupportedFormat"

\* C16: an input taken for a zlib stream (low nibble of the first byte 8)
\* whose flg byte has FDICT (0x20) set makes inflate return UnsupportedFormat;
\* no bit of a block has been read and the output is untouched
C16_FdictIsUnsupportedFormat ==
    (/\ inf.phase = "done" /\ inf.kind = "header"
     /\ inf.input[1] % 16 = 8
     /\ BitAnd(inf.input[2], 32) # 0)
        => /\ inf.res = "UnsupportedFormat"
           /\ inf.consumed = 0
           /\ inf.out = LzNew(Repeat(0, inf.size))

\* a header with FDICT set that passes the check, in front of a stored block
C16_Witness ==
    /\ inf.phase = "done" /\ inf.kind = "header"
    /\ BitAnd(inf.input[2], 32) # 0
    /\ (inf.input[1] * 256 + inf.input[2]) % 31 = 0
    /\ Len(inf.input) > 2
    /\ inf.res = "UnsupportedFormat"

-----------------------------------------------------------------------------
(* num/bits.rs: a writer, then a reader over the bytes it gave *)

\* the most values pushed to one writer
WrMaxValues == 2
\* BitSize: Bit1 ..= Bit24
BitSizes == 1..24
\* the 24-bit patterns the pushed values are cut from
WrSeeds == {16777215, 5592405, 11259375, 8388609}
\* how far the pattern moves from one push to the next
WrSeedStep == 3

\* the value of push number k (from 0): VarLenInteger::new keeps the bits of
\* the pattern above `size`, VarLenInteger::new_truncated does not
WrValue(ctor, seed, k, size) ==
    IF ctor = "new" THEN VarBitNew(size, Shr(seed, WrSeedStep * k))
    ELSE VarBitNewTruncated(size, Shr(seed, WrSeedStep * k))

WrInit ==
    /\ \E seed \in WrSeeds, ctor \in {"new", "new_truncated"} :
         wr = [phase |-> "write", seed |-> seed, ctor |-> ctor, w |-> WriterNew,
               values |-> <<>>, bytes |-> <<>>, r |-> ReaderNew(<<>>), reads |-> <<>>]
    /\ rd = RdIdle /\ rd_ret = RdRetIdle /\ pf = PfIdle /\ lz = LzIdle /\ cx = CxIdle
    /\ fr = FrIdle /\ tk = TkIdle /\ sx = SxIdle /\ vb = VbIdle /\ inf = InfIdle

\* BitStreamWriter::push(value)
WrPush ==
    /\ wr.phase = "write"
    /\ Len(wr.values) < WrMaxValues
    /\ \E size \in BitSizes :
         wr' = With(WrValue(wr.ctor, wr.seed, Len(wr.values), size), LAMBDA value :
                   [wr EXCEPT !.w = WriterPush(wr.w, value),
                              !.values = Append(wr.values, value)])

\* BitStreamWriter::into_bytes, then BitStreamReader::new over the bytes
WrIntoBytes ==
    /\ wr.phase = "write"
    /\ wr' = With(WriterIntoBytes(wr.w), LAMBDA bytes :
                 [wr EXCEPT !.phase = "read", !.bytes = bytes, !.r = ReaderNew(bytes)])

\* BitStreamReader::read_bits(size), with the size of the next pushed value
WrRead ==
    /\ wr.phase = "read"
    /\ Len(wr.reads) < Len(wr.values)
    /\ wr' = With(ReadBits(wr.r, wr.values[Len(wr.reads) + 1].size), LAMBDA t :
                 [wr EXCEPT !.r = t.r, !.reads = Append(wr.reads, t.val)])

WrNext ==
    (WrPush \/ WrIntoBytes \/ WrRead)
    /\ UNCHANGED <<rd, rd_ret, pf, lz, cx, fr, tk, sx, vb, inf>>

SpecWriter == WrInit /\ [][WrNext]_vars

RECURSIVE WrTotalBits(_, _)
\* the sizes of values[1..k] added up
WrTotalBits(values, k) ==
    IF k = 0 THEN 0 ELSE WrTotalBits(values, k - 1) + values[k].size

\* bit number i (from 0) of the byte string, lowest bit of each byte first
WrBitAt(bytes, i) == BitOf(bytes[(i \div 8) + 1], i % 8)

\* C18: the reader over into_bytes() returns, for the sizes pushed and in the
\* order pushed, the bits the writer was given: the k-th read_bits is the low
\* `size` bits of the k-th value, which is the value itself whenever the value
\* fits its size; the bytes are the values packed lowest bit first, and the
\* last byte is filled up with zero bits
C18_ReaderSeesWrittenBits ==
    wr.phase = "read" =>
        /\ Len(wr.bytes) = (WrTotalBits(wr.values, Len(wr.values)) + 7) \div 8
        /\ \A k \in 1..Len(wr.reads) :
             /\ wr.reads[k] = Some(wr.values[k].value % Pow2(wr.values[k].size))
             /\ VarBitNewChecked(wr.values[k].size, wr.values[k].value) # None
                    => wr.reads[k] = Some(wr.values[k].value)
             /\ \A j \in 0..(wr.values[k].size - 1) :
                    WrBitAt(wr.bytes, WrTotalBits(wr.values, k - 1) + j)
                        = BitOf(wr.values[k].value, j)
        /\ \A i \in WrTotalBits(wr.values, Len(wr.values))..(8 * Len(wr.bytes) - 1) :
               WrBitAt(wr.bytes, i) = 0

\* two values that fit their sizes were pushed, the second across a byte
\* boundary with bits left over, and both were read back
C18_Witness ==
    /\ wr.phase = "read"
    /\ Len(wr.reads) = 2
    /\ wr.values[1].size % 8 # 0
    /\ wr.values[1].size + wr.values[2].size > 16
    /\ (wr.values[1].size + wr.values[2].size) % 8 # 0
    /\ wr.values[2].value >= Pow2(wr.values[2].size - 1)
    /\ wr.reads = <<Some(wr.values[1].value), Some(wr.values[2].value)>>

-----------------------------------------------------------------------------
(* num/vl_integer.rs: a value from a public constructor, reversed twice *)

\* the highest bit set in an argument of the constructors (a u32; bits from
\* 24 on are cut by new and new_truncated and refused by new_checked)
VbMaxBit == 25

\* the u32 arguments: single bits, runs of low bits, and three patterns
VbValues ==
    {Pow2(k) : k \in 0..VbMaxBit} \cup {Pow2(k) - 1 : k \in 0..VbMaxBit}
        \cup {1193046, 5592405, 11259375}

\* the constructor calls: [ctor, made], made = Some(value) or None
VbMade ==
    {[ctor |-> "new", made |-> Some(VarBitNew(size, value))] :
        size \in BitSizes, value \in VbValues}
    \cup {[ctor |-> "new_checked", made |-> VarBitNewChecked(size, value)] :
        size \in BitSizes, value \in VbValues}
    \cup {[ctor |-> "new_truncated", made |-> Some(VarBitNewTruncated(size, value))] :
        size \in BitSizes, value \in VbValues}
    \cup {[ctor |-> "with_bool", made |-> Some(VarBitWithBool(b))] : b \in BOOLEAN}
    \cup {[ctor |-> "with_nibble", made |-> Some(VarBitWithNibble(n))] : n \in 0..15}
    \cup {[ctor |-> "with_byte", made |-> Some(VarBitWithByte(b))] : b \in 0..255}

VbInit ==
    /\ \E c \in VbMade :
         vb = [phase |-> "made", ctor |-> c.ctor, made |-> c.made, once |-> None,
               twice |-> None]
    /\ rd = RdIdle /\ rd_ret = RdRetIdle /\ pf = PfIdle /\ lz = LzIdle /\ cx = CxIdle
    /\ fr = FrIdle /\ tk = TkIdle /\ sx = SxIdle /\ wr = WrIdle /\ inf = InfIdle

\* v.reversed()
VbReversed ==
    /\ vb.phase = "made"
    /\ vb.made # None
    /\ vb' = [vb EXCEPT !.phase = "once", !.once = Some(VarBitReversed(vb.made[1]))]

\* v.reversed().reversed()
VbReversedAgain ==
    /\ vb.phase = "once"
    /\ vb' = [vb EXCEPT !.phase = "twice", !.twice = Some(VarBitReversed(vb.once[1]))]

VbNext ==
    (VbReversed \/ VbReversedAgain)
    /\ UNCHANGED <<rd, rd_ret, pf, lz, cx, fr, tk, sx, wr, inf>>

SpecVarBits == VbInit /\ [][VbNext]_vars

\* C19 as stated: for every value v a public constructor returns,
\* v.reversed().reversed() == v (same size, same value)
C19_ReversedTwiceIsIdentity ==
    vb.phase = "twice" => vb.twice = vb.made

\* a value of VarLenInteger::new with bits above its size comes back from two
\* reversals without them: same size, another value
C19_WideValueComesBackCut ==
    /\ vb.phase = "twice"
    /\ vb.ctor = "new"
    /\ vb.made[1].value > BitSizeMask(vb.made[1].size)
    /\ vb.twice[1].size = vb.made[1].size
    /\ vb.twice[1].value = vb.made[1].value % Pow2(vb.made[1].size)
    /\ vb.twice # vb.made

-----------------------------------------------------------------------------
(* deflate/deflate.rs: the trailer of a zlib stream *)

RECURSIVE SumTo(_, _)
\* data[1] + ... + data[k]
SumTo(data, k) ==
    IF k = 0 THEN 0
    ELSE IF k = 1 THEN data[1]
    ELSE SumTo(data, k \div 2)
             + SumTo([i \in 1..(k - k \div 2) |-> data[k \div 2 + i]], k - k \div 2)

\* Adler-32 by its definition (RFC 1950): s1 is 1 plus the sum of the bytes,
\* s2 is the sum of the values s1 takes after each byte, both modulo 65521;
\* the value is (s2 << 16) | s1, kept as its halves [s1, s2]
Adler32Value(data) ==
    LET n == Len(data) IN
    [s1 |-> (1 + SumTo(data, n)) % 65521,
     s2 |-> (n + SumTo([i \in 1..n |-> (n - i + 1) * data[i]], n)) % 65521]

\* the four bytes of the 32-bit value (hi << 16) | lo, highest first
BigEndian32(hi, lo) == <<hi \div 256, hi % 256, lo \div 256, lo % 256>>

\* the trailer a zlib stream of the input ends with
AdlerTrailer(input) == BigEndian32(Adler32Value(input).s2, Adler32Value(input).s1)

\* the bits deflate has written when the last block is done (header included)
CxBlockBits == cx.eob_bit + EobSize(CxLastBlock(cx.items), cx.static)

\* C20: with zlib framing, the stream deflate returns is the header and the
\* blocks, padded with zero bits to a whole byte, then four more bytes, which
\* are the Adler-32 of the input (s2 * 65536 + s1, s1 from 1, s2 from 0, both
\* modulo 65521) highest byte first
C20_ZlibTrailer ==
    (cx.kind = "deflate" /\ cx.zlib /\ cx.phase \in {"stream", "done"})
    => /\ Len(cx.stream) = (CxBlockBits + 7) \div 8 + 4
       /\ \A i \in CxBlockBits..(8 * (Len(cx.stream) - 4) - 1) :
              BitOf(cx.stream[(i \div 8) + 1], i % 8) = 0
       /\ SubSeq(cx.stream, Len(cx.stream) - 3, Len(cx.stream))
              = AdlerTrailer(cx.input)

\* a zlib stream of an input long enough for both sums to pass 65521, whose
\* last block ends inside a byte and whose trailer bytes all differ
C20_Witness ==
    /\ cx.kind = "deflate" /\ cx.zlib /\ cx.phase = "stream"
    /\ 1 + SumTo(cx.input, Len(cx.input)) >= 65521
    /\ CxBlockBits % 8 # 0
    /\ Cardinality({cx.stream[Len(cx.stream) - k] : k \in 0..3}) = 4
    /\ SubSeq(cx.stream, Len(cx.stream) - 3, Len(cx.stream))
           = AdlerTrailer(cx.input)

-----------------------------------------------------------------------------
(* deflate/deflate.rs: deflate of the empty input *)

\* C21: deflate and deflate_zlib of the empty input return
\* Err(InvalidInput), at every level and with every options argument, and
\* no byte of output comes back (the error leaves before any block is made)
C21_EmptyInputIsInvalidInput ==
    (cx.kind = "deflate" /\ cx.input = <<>> /\ cx.phase # "input")
    => /\ cx.phase = "failed"
       /\ cx.res = "InvalidInput"
       /\ cx.items = <<>>
       /\ cx.stream = <<>>

\* deflate_zlib of the empty input at a level that does not take the
\* encode_fast path has returned InvalidInput
C21_Witness ==
    /\ cx.kind = "deflate" /\ cx.input = <<>> /\ cx.phase = "failed"
    /\ cx.api = "deflate_zlib" /\ cx.zlib
    /\ ~IsFastMethod(cx.level)
    /\ cx.res = "InvalidInput"

-----------------------------------------------------------------------------
(* num/bits.rs: BitStreamReader under all its operations. rd is the       *)
(* reader; rd_ret holds the last call and its result, the number of bits  *)
(* the calls so far have taken from the input (consumed), and whether     *)
(* every call so far returned Some (ok), and the number of calls.         *)

\* the longest slice; the slices are the empty one, a short one, one that
\* fills the accumulator exactly, and the longest
RxMaxLen == 10
RxShortLen == 2
RxSources ==
    {[i \in 1..n |-> RdByte(i)] : n \in {0, RxShortLen, AccBits \div 8, RxMaxLen}}

\* widths the bit operations are called with
RxWidths == {1, 13}

\* the most calls made on one reader
RxMaxCalls == 4

\* byte counts read_next_bytes and read_next_bytes_slice are called with
RdByteCounts == {0, 1, 3}

\* n rounded up to a multiple of 8
CeilToByte(n) == 8 * ((n + 7) \div 8)

RxInit ==
    /\ \E s \in RxSources : rd = ReaderNew(s)
    /\ rd_ret = [op |-> "new", bits |-> 0, val |-> None, consumed |-> 0, ok |-> TRUE,
                 was_ok |-> TRUE, after |-> FALSE, calls |-> 0]
    /\ pf = PfIdle /\ lz = LzIdle /\ cx = CxIdle /\ fr = FrIdle
    /\ tk = TkIdle /\ sx = SxIdle /\ wr = WrIdle /\ vb = VbIdle /\ inf = InfIdle

\* rd_ret after a call that returned val; consumed is the count of bits
\* taken so far when val is Some. ok: every call so far returned Some; was_ok:
\* every call before this one did; after: read_next_bytes or
\* read_next_bytes_slice has returned Some
RxRet(op, bits, val, consumed) ==
    [op |-> op, bits |-> bits, val |-> val,
     consumed |-> IF IsSome(val) THEN consumed ELSE rd_ret.consumed,
     ok |-> rd_ret.ok /\ IsSome(val),
     was_ok |-> rd_ret.ok,
     after |-> rd_ret.after
                  \/ (op \in {"read_next_bytes", "read_next_bytes_slice"} /\ IsSome(val)),
     calls |-> rd_ret.calls + 1]

\* read_bits(k)
RxReadBits ==
    \E k \in RxWidths :
        /\ rd' = ReadBits(rd, k).r
        /\ rd_ret' = RxRet("read_bits", k, ReadBits(rd, k).val, rd_ret.consumed + k)

\* read_bool()
RxReadBool ==
    /\ rd' = ReadBool(rd).r
    /\ rd_ret' = RxRet("read_bool", 1, ReadBool(rd).val, rd_ret.consumed + 1)

\* peek_bits(k)
RxPeekBits ==
    \E k \in RxWidths :
        /\ rd' = PeekBits(rd, k).r
        /\ rd_ret' = RxRet("peek_bits", k, PeekBits(rd, k).val, rd_ret.consumed)

\* advance(k)
RxAdvance ==
    \E k \in RxWidths :
        /\ rd' = Advance(rd, k).r
        /\ rd_ret' = RxRet("advance", k, Advance(rd, k).val, rd_ret.consumed + k)

\* skip_to_next_byte_boundary()
RxSkip ==
    /\ rd' = SkipToNextByteBoundary(rd)
    /\ rd_ret' = RxRet("skip_to_next_byte_boundary", 0, Some(0), CeilToByte(rd_ret.consumed))

\* read_next_bytes::<N>()
RxReadNextBytes ==
    \E n \in RdByteCounts :
        /\ rd' = ReadNextBytes(rd, n).r
        /\ rd_ret' = RxRet("read_next_bytes", n, ReadNextBytes(rd, n).val,
                           CeilToByte(rd_ret.consumed) + 8 * n)

\* read_next_bytes_slice(size)
RxReadNextBytesSlice ==
    \E n \in RdByteCounts :
        /\ rd' = ReadNextBytesSlice(rd, n).r
        /\ rd_ret' = RxRet("read_next_bytes_slice", n, ReadNextBytesSlice(rd, n).val,
                           CeilToByte(rd_ret.consumed) + 8 * n)

RxNext ==
    rd_ret.calls < RxMaxCalls
    /\ (RxReadBits \/ RxReadBool \/ RxPeekBits \/ RxAdvance \/ RxSkip \/ RxReadNextBytes
     \/ RxReadNextBytesSlice)
    /\ UNCHANGED <<pf, lz, cx, fr, tk, sx, wr, vb, inf>>

SpecReader == RxInit /\ [][RxNext]_vars

\* C22 as stated: after any sequence of the operations of the reader, the
\* count of buffered bits is below the width of the accumulator (left < 64)
C22_LeftBelowAccBits ==
    rd.left < AccBits

\* peek_bits on a reader with no bit buffered and eight bytes ahead has
\* filled the accumulator to its whole width: left = 64
C22_LeftIsAccBits ==
    /\ rd_ret.op = "peek_bits"
    /\ rd_ret.consumed = 0
    /\ Len(rd.src) = 8 /\ rd.pos = 8
    /\ rd.left = AccBits

-----------------------------------------------------------------------------
(* num/bits.rs: BitStreamWriter under push, skip_to_next_byte_boundary and *)
(* extend_from_slice. wr.total counts the bits written: the sizes pushed,  *)
(* the padding of each skip, and eight for each byte appended.             *)

\* the most calls made on one writer
WoMaxCalls == 3

\* the slices handed to extend_from_slice
WoSlices == {<<>>, <<165>>, <<60, 255>>}

WoInit ==
    /\ \E ctor \in {"new", "new_truncated"} :
         wr = [phase |-> "ops", ctor |-> ctor, w |-> WriterNew, op |-> "new", total |-> 0,
               calls |-> 0]
    /\ rd = RdIdle /\ rd_ret = RdRetIdle /\ pf = PfIdle /\ lz = LzIdle /\ cx = CxIdle
    /\ fr = FrIdle /\ tk = TkIdle /\ sx = SxIdle /\ vb = VbIdle /\ inf = InfIdle

\* wr after a call that left the writer w with `total` bits written
WoRan(op, w, total) ==
    [wr EXCEPT !.w = w, !.op = op, !.total = total, !.calls = wr.calls + 1]

\* push(value): every size, the value cut from 24 set bits (VarLenInteger::new
\* keeps all of them, new_truncated the low `size`)
WoPush ==
    \E size \in BitSizes :
        wr' = WoRan("push", WriterPush(wr.w, WrValue(wr.ctor, Pow2(24) - 1, 0, size)),
                    wr.total + size)

\* skip_to_next_byte_boundary()
WoSkip ==
    wr' = WoRan("skip_to_next_byte_boundary", WriterSkipToNextByteBoundary(wr.w),
                CeilToByte(wr.total))

\* extend_from_slice(bytes)
WoExtend ==
    \E bytes \in WoSlices :
        wr' = WoRan("extend_from_slice", WriterExtendFromSlice(wr.w, bytes),
                    CeilToByte(wr.total) + 8 * Len(bytes))

WoNext ==
    wr.calls < WoMaxCalls
    /\ (WoPush \/ WoSkip \/ WoExtend)
    /\ UNCHANGED <<rd, rd_ret, pf, lz, cx, fr, tk, sx, vb, inf>>

SpecWriterOps == WoInit /\ [][WoNext]_vars

\* C23: after any sequence of push (1..=24 bits), skip_to_next_byte_boundary
\* and extend_from_slice, bit_position is in 0..7, the accumulator holds no
\* bit at or above bit_position, and bit_count() is 8 times the flushed
\* bytes plus bit_position, which is the number of bits written
C23_WriterInvariant ==
    /\ wr.w.bit_position \in 0..7
    /\ wr.w.acc < Pow2(wr.w.bit_position)
    /\ WriterBitCount(wr.w) = 8 * Len(wr.w.buf) + wr.w.bit_position
    /\ WriterBitCount(wr.w) = wr.total

\* a wide value was pushed across a byte boundary into a writer that had been
\* padded, and bits are left in the accumulator
C23_Witness ==
    /\ wr.calls = 3 /\ wr.op = "push" /\ wr.ctor = "new"
    /\ wr.w.bit_position > 0 /\ wr.w.acc > 0
    /\ Len(wr.w.buf) >= 3
    /\ wr.total % 8 = wr.w.bit_position
    /\ wr.total > 8 * Len(wr.w.buf)

-----------------------------------------------------------------------------
(* deflate/deflate.rs: the sizes of the blocks *)

RECURSIVE FrItemsBefore(_, _)
\* the items of blocks[1..c] together
FrItemsBefore(blocks, c) ==
    IF c = 0 THEN 0 ELSE FrItemsBefore(blocks, c - 1) + blocks[c].len

\* C24 as stated: the items are cut into blocks of at least MIN_BLOCK_SIZE
\* items each whenever there are that many items in all; the blocks in order
\* make up the items; only the last block is marked final
C24_BlocksAtLeastMinSize ==
    fr.phase \in {"blocks", "done"}
    => /\ fr.items >= MIN_BLOCK_SIZE
              => \A c \in 1..Len(fr.blocks) : fr.blocks[c].len >= MIN_BLOCK_SIZE
       /\ FrItemsBefore(fr.blocks, Len(fr.blocks)) = fr.items
       /\ \A c \in 1..Len(fr.blocks) : fr.blocks[c].is_final = (c = Len(fr.blocks))

\* MIN_BLOCK_SIZE + 1 items were cut into a block of MIN_BLOCK_SIZE items and
\* a final block of one item
C24_LastBlockIsShort ==
    /\ fr.phase = "done"
    /\ fr.items = MIN_BLOCK_SIZE + 1
    /\ Len(fr.blocks) = 2
    /\ fr.blocks[1].len = MIN_BLOCK_SIZE /\ ~fr.blocks[1].is_final
    /\ fr.blocks[2].len = 1 /\ fr.blocks[2].is_final

-----------------------------------------------------------------------------
(* lz/match_finder/match_finder.rs: the candidates of a query *)

\* the length kernel gives the candidate at index j of the suffix array: the
\* smallest lcp between the index of the position, base, and j
FinderCandidateLen(a, base, j) ==
    IF j > base THEN SetMin({a.lcp[i + 1] : i \in base..(j - 1)})
    ELSE SetMin({a.lcp[i + 1] : i \in j..(base - 1)})

\* the indices of the suffix array that a query at pos takes as candidates:
\* within `takes` of the index of pos, at least min_len long, and at an
\* offset inside the window
FinderCandidates(a, pos, min_len, max_distance) ==
    {j \in (0..(Len(a.s) - 1)) \ {a.rank[pos + 1]} :
        /\ j - a.rank[pos + 1] <= FINDER_TAKES
        /\ a.rank[pos + 1] - j <= FINDER_TAKES
        /\ FinderCandidateLen(a, a.rank[pos + 1], j) >= min_len
        /\ a.sa[j + 1] >= SaturatingSub(pos, max_distance)
        /\ a.sa[j + 1] < pos}

\* C25 as stated: the match a query returns is as long as the longest
\* candidate in the window, and among the candidates of that length it is
\* the one at the smallest distance
C25_NearestOfLongest ==
    tk.phase = "done" /\ tk.strategy = "finder"
    => \A j \in FinderCandidates(FinderNew(tk.input), tk.pos, tk.min_len, tk.max_distance) :
          With(FinderNew(tk.input), LAMBDA a :
              \/ FinderCandidateLen(a, a.rank[tk.pos + 1], j) < tk.found.len
              \/ /\ FinderCandidateLen(a, a.rank[tk.pos + 1], j) = tk.found.len
                 /\ tk.found.distance <= tk.pos - a.sa[j + 1])

\* a query returned a match of the greatest length while a candidate of the
\* same length lies nearer
C25_FartherOfTwo ==
    /\ tk.phase = "done" /\ tk.strategy = "finder"
    /\ tk.found.len >= tk.min_len
    /\ \E j \in FinderCandidates(FinderNew(tk.input), tk.pos, tk.min_len, tk.max_distance) :
          With(FinderNew(tk.input), LAMBDA a :
              /\ FinderCandidateLen(a, a.rank[tk.pos + 1], j) = tk.found.len
              /\ tk.pos - a.sa[j + 1] < tk.found.distance)
    /\ \A j \in FinderCandidates(FinderNew(tk.input), tk.pos, tk.min_len, tk.max_distance) :
          With(FinderNew(tk.input), LAMBDA a :
              FinderCandidateLen(a, a.rank[tk.pos + 1], j) <= tk.found.len)

-----------------------------------------------------------------------------
(* lz/cache.rs: the offset cache, call by call *)

CaMaxLen == 6
CaLongLen == 9
CaMaxStep == 3
CaMaxCalls == 5
CaMaxDistances == {1, 2, 4}
CaPurgeLimits == {0, 1, 3}

CaSources ==
    UNION {[1..n -> {0, 1}] : n \in 0..CaMaxLen}
        \cup {Repeat(0, CaLongLen), Repeat(0, CaLongLen - 1) \o <<1>>}

CaInit ==
    /\ \E source \in CaSources, max_distance \in CaMaxDistances, purge_limit \in CaPurgeLimits :
         tk = [phase |-> "cache", op |-> "new",
               c |-> OffsetCache3New(source \o <<>>, max_distance, purge_limit),
               got |-> None, purges |-> 0, calls |-> 0]
    /\ rd = RdIdle /\ rd_ret = RdRetIdle /\ pf = PfIdle /\ lz = LzIdle /\ cx = CxIdle
    /\ fr = FrIdle /\ sx = SxIdle /\ wr = WrIdle /\ vb = VbIdle /\ inf = InfIdle

\* advance(step); purges counts the calls that purged
CaAdvance ==
    \E step \in 0..CaMaxStep :
        tk' = [tk EXCEPT !.op = "advance", !.c = OffsetCacheAdvance(tk.c, step),
                         !.got = None, !.calls = @ + 1,
                         !.purges = IF OffsetCachePurges(tk.c, step) THEN @ + 1 ELSE @]

\* matches(), its iterator read to the end
CaMatches ==
    tk' = [tk EXCEPT !.op = "matches", !.got = OffsetCacheMatches(tk.c), !.calls = @ + 1]

\* nearest()
CaNearest ==
    tk' = [tk EXCEPT !.op = "nearest", !.got = OffsetCacheNearest(tk.c), !.calls = @ + 1]

CaNext ==
    /\ tk.calls < CaMaxCalls
    /\ (CaAdvance \/ CaMatches \/ CaNearest)
    /\ UNCHANGED <<rd, rd_ret, pf, lz, cx, fr, sx, wr, vb, inf>>

SpecCache == CaInit /\ [][CaNext]_vars

\* the offsets the cache holds for the key at its cursor
CaHeld(c) ==
    IF Matching3BKeyValue(c.key) \in DOMAIN c.cache
    THEN {c.cache[Matching3BKeyValue(c.key)][i] :
             i \in 1..Len(c.cache[Matching3BKeyValue(c.key)])}
    ELSE {}

\* the offsets before the cursor, inside the window, whose three bytes are
\* those at the cursor
CaWindowOffsets(c) ==
    {q \in 0..(c.cursor - 1) :
        /\ c.cursor - q <= c.max_distance
        /\ Key3(c.source, q) = Key3(c.source, c.cursor)}

\* C26: whatever advances came before, matches() yields only offsets before
\* the cursor, inside the window, with the three bytes of the cursor, nearest
\* first, and it yields every such offset that the cache holds
C26_MatchesAreWindowOffsets ==
    tk.phase = "cache" /\ tk.op = "matches" /\ IsSome(tk.got)
    => With(Unwrap(tk.got), LAMBDA ds :
         /\ \A k \in 1..Len(ds) : tk.c.cursor - ds[k] \in CaWindowOffsets(tk.c)
         /\ \A k \in 1..(Len(ds) - 1) : ds[k] < ds[k + 1]
         /\ \A q \in CaWindowOffsets(tk.c) \cap CaHeld(tk.c) :
               \E k \in 1..Len(ds) : ds[k] = tk.c.cursor - q)

\* after a purge the cache still holds an offset out of the window, and
\* matches() yields the two offsets inside it
C26_Witness ==
    /\ tk.phase = "cache" /\ tk.op = "matches" /\ IsSome(tk.got)
    /\ tk.purges >= 1
    /\ Len(Unwrap(tk.got)) = 2
    /\ \E q \in CaHeld(tk.c) : tk.c.cursor - q > tk.c.max_distance

-----------------------------------------------------------------------------
(* entropy/prefix/encode.rs: the code lengths made from frequencies *)

\* symbols of the exhaustively enumerated frequency tables
GnMaxSyms == 4
\* largest frequency in them
GnMaxFreq == 2
\* most symbols in a table whose frequencies grow like Fibonacci numbers
GnMaxChain == 19

RECURSIVE GnFib(_)
\* 1, 1, 2, 3, 5, ...: the frequencies with the deepest Huffman tree
GnFib(n) == IF n <= 2 THEN 1 ELSE GnFib(n - 1) + GnFib(n - 2)

\* the alphabets of the encoder: [kind, size, max_len, min_size]
GnAlphabets ==
    {[kind |-> "lit", size |-> 286, max_len |-> 15, min_size |-> 257],
     [kind |-> "dist", size |-> 30, max_len |-> 15, min_size |-> 1],
     [kind |-> "meta", size |-> 19, max_len |-> 7, min_size |-> 20]}

\* frequency tables of an alphabet: every small one; chains of n growing
\* frequencies from symbol `at` on, upwards or downwards, scaled by k, with
\* `flat` further symbols of frequency 1 behind them
GnFreqTables(alphabet) ==
    [1..GnMaxSyms -> 0..GnMaxFreq]
    \cup {[s \in 1..(at + n + flat) |->
               IF s <= at THEN 0
               ELSE IF s > at + n THEN 1
               ELSE k * GnFib(IF up THEN s - at ELSE n + 1 - (s - at))] :
            n \in 3..Min(GnMaxChain, alphabet.size - 3), at \in {0, 1}, flat \in {0, 2},
            k \in {1, 3}, up \in BOOLEAN}

GnInit ==
    /\ \E alphabet \in GnAlphabets : \E freq \in GnFreqTables(alphabet) :
         pf = [phase |-> "freq", kind |-> alphabet.kind, freq |-> freq \o <<>>,
               max_len |-> alphabet.max_len, min_size |-> alphabet.min_size,
               actual_max_len |-> 0, table |-> <<>>]
    /\ rd = RdIdle /\ rd_ret = RdRetIdle /\ lz = LzIdle /\ cx = CxIdle /\ fr = FrIdle
    /\ tk = TkIdle /\ sx = SxIdle /\ wr = WrIdle /\ vb = VbIdle /\ inf = InfIdle

\* generate_prefix_table, `actual_max_len`: one more than the depth of the
\* Huffman tree; 2 where no tree is built
ActualMaxLen(freq) ==
    With(StableSort(FreqEntries(freq), "freq"), LAMBDA sorted :
        IF Len(sorted) <= 2 THEN 2
        ELSE Len(HuffBuild([k \in 1..Len(sorted) |->
                                HuffLeaf(sorted[k].sym, sorted[k].freq)] \o <<>>)[1].hist))

\* DeflateIrBlock::encode: make_prefix_table(freq_count, Bit15, min_size)
GnMakePrefixTable ==
    /\ pf.phase = "freq" /\ pf.kind \in {"lit", "dist"}
    /\ pf' = [pf EXCEPT !.phase = "made", !.actual_max_len = ActualMaxLen(pf.freq),
                        !.table = MakePrefixTable(pf.freq, pf.max_len, pf.min_size)]

\* encode_prefix_tables: generate_prefix_table(freq_table, Bit7, None) put
\* into prefix_map
GnMetaTable ==
    /\ pf.phase = "freq" /\ pf.kind = "meta"
    /\ pf' = [pf EXCEPT
                !.phase = "made", !.actual_max_len = ActualMaxLen(pf.freq),
                !.table = With(GeneratePrefixTable(StableSort(FreqEntries(pf.freq), "freq"),
                                                   pf.max_len),
                    LAMBDA prefix_table :
                    [s \in 1..pf.min_size |->
                        With({k \in 1..Len(prefix_table) : prefix_table[k].sym = s - 1},
                             LAMBDA hits :
                            IF hits = {} THEN None
                            ELSE With(SetMax(hits), LAMBDA k :
                                 Some([size |-> prefix_table[k].size,
                                       value |-> prefix_table[k].value])))] \o <<>>)]

GnNext ==
    (GnMakePrefixTable \/ GnMetaTable)
    /\ UNCHANGED <<rd, rd_ret, lz, cx, fr, tk, sx, wr, vb, inf>>

SpecGen == GnInit /\ [][GnNext]_vars

\* the Kraft sum of the codes of a table, scaled by 2^max_len
GnKraft(table, max_len) ==
    SeqSum([s \in 1..Len(table) |->
               IF IsSome(table[s]) /\ Unwrap(table[s]).size > 0
                  /\ Unwrap(table[s]).size <= max_len
               THEN Pow2(max_len - Unwrap(table[s]).size) ELSE 0] \o <<>>, Len(table))

\* C27: the code lengths made from a frequency table are at most max_len
\* (15 for literal/length and distance, 7 for the code length alphabet),
\* every symbol that occurs has a length of at least one bit, and the Kraft
\* sum of the lengths is at most 1
C27_LengthsLimitedAndKraft ==
    pf.phase = "made"
    => /\ \A s \in 1..Len(pf.freq) :
             pf.freq[s] > 0
             => /\ s <= Len(pf.table)
                /\ IsSome(pf.table[s])
                /\ Unwrap(pf.table[s]).size >= 1
       /\ \A s \in 1..Len(pf.table) :
             IsSome(pf.table[s]) => Unwrap(pf.table[s]).size <= pf.max_len
       /\ GnKraft(pf.table, pf.max_len) <= Pow2(pf.max_len)

\* the Huffman tree of the code length alphabet was three levels deeper than
\* 7 bits, and the table made from it has codes of 7 bits
C27_Witness ==
    /\ pf.phase = "made" /\ pf.kind = "meta"
    /\ pf.actual_max_len = pf.max_len + 4
    /\ \E s \in 1..Len(pf.table) : IsSome(pf.table[s]) /\ Unwrap(pf.table[s]).size = 7
    /\ \E s \in 1..Len(pf.table) : IsSome(pf.table[s]) /\ Unwrap(pf.table[s]).size = 1

\* the same for a distance alphabet and 15 bits
C27_WitnessDist ==
    /\ pf.phase = "made" /\ pf.kind = "dist"
    /\ pf.actual_max_len > pf.max_len + 1
    /\ \E s \in 1..Len(pf.table) : IsSome(pf.table[s]) /\ Unwrap(pf.table[s]).size = 15

-----------------------------------------------------------------------------
(* deflate/inflate.rs: what Ok stands for *)

\* C28 as stated: inflate returns Ok only when a block with bfinal set has
\* been read and decoded through its end; a full output, or one of length
\* zero, is no reason for Ok while blocks are left
C28_OkOnlyAfterFinalBlock ==
    (inf.phase = "done" /\ inf.kind = "blocks" /\ inf.res = "Ok")
        => /\ inf.final
           /\ inf.consumed = 8 * inf.end

\* inflate of a raw stream into an output of length zero returned Ok without
\* having read a bit
C28_OkForEmptyOutput ==
    /\ inf.phase = "done" /\ inf.kind = "blocks" /\ ~inf.zlib
    /\ inf.res = "Ok"
    /\ inf.size = 0
    /\ Len(inf.input) > 0
    /\ inf.consumed = 0

\* inflate returned Ok when the first block, bfinal clear, had filled the
\* output: the block with bfinal set behind it was not read
C28_OkForFullOutput ==
    /\ inf.phase = "done" /\ inf.kind = "blocks" /\ ~inf.zlib
    /\ inf.res = "Ok"
    /\ inf.final
    /\ inf.size >= 1 /\ inf.out.position = inf.size
    /\ inf.out.buffer = inf.expect
    /\ inf.consumed = 8 * Len(StoredBlock(0, inf.expect))
    /\ SubSeq(inf.input, 1, Len(StoredBlock(0, inf.expect))) = StoredBlock(0, inf.expect)
    /\ inf.consumed < 8 * inf.end

-----------------------------------------------------------------------------
(* lz/lzss.rs: the tokens cover the input *)

\* C29: for a non-empty input, the tokens of encode_fast, encode_lcp and
\* encode replayed in order (a literal appends its byte, a match appends len
\* bytes copied from distance back) give the input again, and the bytes the
\* tokens stand for add up to the length of the input
C29_TokensCoverInput ==
    (tk.phase = "done" /\ tk.strategy \in {"fast", "lcp", "encode"} /\ tk.input # <<>>) =>
        /\ tk.res = "Ok"
        /\ TokensDecode(tk.tokens, 1, <<>>) = tk.input
        /\ TokenCursor(tk.tokens, Len(tk.tokens) + 1) = Len(tk.input)

\* a match was cut at max_len and the one or two bytes that went on matching
\* were left to literals
C29_Witness ==
    /\ tk.phase = "done" /\ tk.strategy \in {"fast", "lcp"} /\ tk.res = "Ok"
    /\ TokenCursor(tk.tokens, Len(tk.tokens) + 1) = Len(tk.input)
    /\ \E k \in 1..(Len(tk.tokens) - 1) :
         /\ ~tk.tokens[k].lit /\ tk.tokens[k].len = tk.config.max_len
         /\ tk.tokens[k + 1].lit
         /\ MatchingLen(tk.input, TokenCursor(tk.tokens, k + 1), tk.tokens[k].distance, 0)
                \in {1, 2}

\* encode panicked on an input shorter than its first literals
C29_EncodePanics ==
    /\ tk.phase = "done" /\ tk.strategy = "encode"
    /\ tk.res = "panic"
    /\ tk.input # <<>>
    /\ Len(tk.input) < 1 + tk.config.skip_first_literal
    /\ tk.tokens = <<>>

\* on every input as long as its first literals, the tokens of the three
\* encoders replayed in order give the input again
C29_CoveredWhenReturned ==
    (tk.phase = "done" /\ tk.strategy \in {"fast", "lcp", "encode"} /\ tk.res = "Ok") =>
        /\ tk.input # <<>>
        /\ TokensDecode(tk.tokens, 1, <<>>) = tk.input
        /\ TokenCursor(tk.tokens, Len(tk.tokens) + 1) = Len(tk.input)

-----------------------------------------------------------------------------
(* num/bits.rs: bytes read between bit reads *)

RECURSIVE RxBitsAt(_, _, _)
\* the k bits of a slice from bit offset `from` on, lowest bit of a byte first
RxBitsAt(src, from, k) ==
    IF k = 0 THEN 0
    ELSE RxBitsAt(src, from, k - 1)
             + BitOf(src[(from + k - 1) \div 8 + 1], (from + k - 1) % 8) * Pow2(k - 1)

\* C30 as stated: after bit reads and peeks that took b bits, read_next_bytes
\* and read_next_bytes_slice(n) return the n bytes from byte offset
\* ceil(b / 8) on, whatever the reader had prefetched; they return None when
\* fewer than n bytes are left there; and the bit reads after them go on
\* right behind those n bytes
C30_BytesThenBits ==
    /\ (rd_ret.op \in {"read_next_bytes", "read_next_bytes_slice"} /\ rd_ret.ok)
           => Unwrap(rd_ret.val)
                  = SubSeq(rd.src, rd_ret.consumed \div 8 - rd_ret.bits + 1,
                           rd_ret.consumed \div 8)
    /\ (rd_ret.op \in {"read_next_bytes", "read_next_bytes_slice"} /\ rd_ret.was_ok)
           => (IsSome(rd_ret.val)
                   <=> (IF rd_ret.ok THEN rd_ret.consumed \div 8 <= Len(rd.src)
                        ELSE CeilToByte(rd_ret.consumed) \div 8 + rd_ret.bits
                                 <= Len(rd.src)))
    /\ (rd_ret.op \in {"read_bits", "read_bool"} /\ rd_ret.ok /\ rd_ret.after)
           => Unwrap(rd_ret.val)
                  = RxBitsAt(rd.src, rd_ret.consumed - rd_ret.bits, rd_ret.bits)
    /\ (rd_ret.op = "peek_bits" /\ rd_ret.ok /\ rd_ret.after)
           => Unwrap(rd_ret.val) = RxBitsAt(rd.src, rd_ret.consumed, rd_ret.bits)

\* peek_bits prefetched eight bytes, read_next_bytes_slice(1) returned the
\* first byte, and read_bits then returned bits that are not the bits of the
\* second byte
C30_BitsAfterSliceAreWrong ==
    /\ rd_ret.op = "read_bits" /\ rd_ret.ok /\ rd_ret.after
    /\ rd_ret.calls = 3
    /\ rd_ret.consumed = 8 + rd_ret.bits
    /\ rd.pos = 2
    /\ Unwrap(rd_ret.val) # RxBitsAt(rd.src, 8, rd_ret.bits)


=============================================================================
